---------------------------- MODULE Spec2Model ----------------------------
(***************************************************************************)
(* A model of the token discovery backend: the Token Scanner's flag, the   *)
(* reaction counters, the launchpad feed handler, the comment cache and    *)
(* the SSE fan-out over the KV store's pub/sub.                            *)
(*                                                                         *)
(* Every asynchronous handler is a task whose steps are the awaits of its  *)
(* code: between two awaits of one task any step of any other task may     *)
(* run.  A MULTI ... EXEC pipeline is one step (the KV store runs it       *)
(* atomically).  Tasks may run in one process or in several instances      *)
(* that share the KV store; nothing in the code orders the steps of two    *)
(* tasks beyond the store's own atomicity.                                 *)
(***************************************************************************)
EXTENDS Integers, Sequences, FiniteSets, TLC

VARIABLES
    budget,       \* how many calls of each kind the run may make (fixed by Init)
    isScanning,   \* TokenScannerService.isScanning
    scans,        \* the invocations of scanTokens so far
    tokenStore,   \* KV keys zora:tokens and tba:tokens: the token arrays
    emojiHash,    \* KV hashes emoji:<lc(token)> : key -> (field -> count)
    reactions,    \* the emoji.reacted handler tasks so far
    ntHash,       \* KV hash new-tokens:events : the set of its fields
    ntList,       \* KV list new-tokens:list, newest first
    ntHandlers,   \* the new-token-created handler tasks so far
    cmDb,         \* comment rows of the database: key -> set of rows
    cmClock,      \* the database's createdAt of the newest comment row
    cmList,       \* KV lists comments:<lc(token)>:list, newest first
    cmHandlers,   \* the comment.created handler tasks so far
    cmLatest,     \* the CommentsService.getLatest calls so far
    pubLog,       \* every message published, in the store's publish order
    subscribed,   \* channels the subscriber connection is subscribed to
    listeners,    \* 'message' listeners registered on the subscriber connection
    inflight,     \* messages the store has sent to the subscriber connection
    clients,      \* the SSE connections accepted so far
    sseSubscribers,    \* NewTokensService.sseSubscribers
    isRedisSubscribed, \* NewTokensService.isRedisSubscribed
    wlUsers,      \* the wallets that have a user row
    wlRows,       \* watchlist rows of the database: wallet -> token addresses
    wlKv,         \* KV sets watchlist:<lc(wallet)>
    wlEvents,     \* the user.watchlist.token.* events published
    wlTasks,      \* the watchlist calls so far
    rejections,   \* the react calls answered with BadRequest
    registered,   \* event names that have their handler registered
    retries,      \* the retryWithBackoff calls so far
    batchRuns,    \* the batching calls so far
    creates       \* the CommentsService.create calls so far

vars == <<budget, isScanning, scans, tokenStore, emojiHash, reactions, ntHash, ntList,
          ntHandlers, cmDb, cmClock, cmList, cmHandlers, cmLatest,
          pubLog, subscribed, listeners, inflight, clients, sseSubscribers,
          isRedisSubscribed, wlUsers, wlRows, wlKv, wlEvents, wlTasks,
          rejections, registered, retries, batchRuns, creates>>

scanVars   == <<isScanning, scans, tokenStore>>
emojiVars  == <<emojiHash, reactions>>
ntVars     == <<ntHash, ntList, ntHandlers>>
cmVars     == <<cmDb, cmClock, cmList, cmHandlers, cmLatest>>
pubVars    == <<pubLog, inflight>>
subVars    == <<subscribed, listeners>>
sseVars    == <<clients, sseSubscribers, isRedisSubscribed>>
wlVars     == <<wlUsers, wlRows, wlKv, wlEvents, wlTasks>>
toolVars   == <<retries, batchRuns, creates>>
laterVars  == <<wlVars, toolVars, registered, rejections>>

-----------------------------------------------------------------------------
(* Bounds of the runs *)

MaxScans == 2
MaxLogs == 6
MaxReacts == 2
MaxTokenEvents == 3
MaxAddress == 2
MaxCommentCalls == 3
MaxWarmCalls == 2
MaxPruneCalls == 2
SmallLimit == 2
MaxLimitSum == 102
MaxClients == 2
MaxStreamEvents == 2
MaxStreamOps == 3
MaxWatchCalls == 2
MaxHandlerOps == 2
MaxReactCalls == 1
MaxRetryCalls == 1
MaxBatchCalls == 1
MaxItems == 4
MaxBatchSize == 3

(* Program constants *)

NewTokensTrimStop == 199
CommentsTrimStop == 49
WarmTrimStop == 49
PruneSkip == 50
MaxInitial == 100

-----------------------------------------------------------------------------
(* Helpers *)

Min(a, b) == IF a < b THEN a ELSE b

Max(a, b) == IF a > b THEN a ELSE b

Range(s) == {s[i] : i \in DOMAIN s}

SetAt(s, i, v) == [s EXCEPT ![i] = v]

(* String.prototype.toLowerCase on the addresses the runs use *)
Lower(t) ==
    CASE t = "0xAB" -> "0xab"
      [] t = "0xCD" -> "0xcd"
      [] OTHER -> t

(* Redis LPUSH key value: the value becomes the head *)
LPush(list, v) == <<v>> \o list

(* Redis LTRIM key start stop, 0-based and inclusive, for 0 <= start <= stop *)
LTrim(list, start, stop) == SubSeq(list, start + 1, Min(stop + 1, Len(list)))

(* Redis LRANGE key start stop, 0-based and inclusive, for 0 <= start <= stop *)
LRange(list, start, stop) == SubSeq(list, start + 1, Min(stop + 1, Len(list)))

-----------------------------------------------------------------------------
(* KV store pub/sub.  PUBLISH hands the message to every connection that   *)
(* is subscribed to the channel at that moment; the process's subscriber   *)
(* connection receives its messages later, in order.                       *)

RedisPublish(channel, message) ==
    /\ pubLog' = Append(pubLog, [channel |-> channel, message |-> message])
    /\ inflight' =
         IF channel \in subscribed
         THEN Append(inflight, [channel |-> channel, message |-> message,
                                seq |-> Len(pubLog) + 1])
         ELSE inflight

(* the requests and events of the run so far that a stream run counts *)
StreamOps == Len(clients) + Len(reactions) + Len(ntHandlers) + Len(cmHandlers)

PublishedOn(channel) == SelectSeq(pubLog, LAMBDA p : p.channel = channel)

-----------------------------------------------------------------------------
(* Token Scanner: the cron callback, the manual trigger and scanTokens *)

(* PoolProcessorService.BATCH_SIZE and BlockTimestampService.BATCH_SIZE *)
BatchSize == 3
BlockBatchSize == 10

(* blockchain.config: the hook map and the base pairings (USDC, WETH) *)
Hooks == [zoraCreatorCoin |-> "0xd61A", zoraV4Coin |-> "0x9ea9"]
TbaPairings == {"0x8335", "0x4200"}

(* an Initialize event of the PoolManager; currency0 sorts before currency1 *)
PoolLog(currency0, currency1, hooks, blockNumber) ==
    [args |-> [currency0 |-> currency0, currency1 |-> currency1,
               hooks |-> hooks],
     blockNumber |-> blockNumber]

(* what getContractEvents returns for the scanned range *)
ScanLogs ==
    LET plain == PoolLog("0x9000", "0xa000", Hooks.zoraCreatorCoin, 1)
        usdc == PoolLog("0x8335", "0x9000", Hooks.zoraV4Coin, 1)
        bases == PoolLog("0x4200", "0x8335", Hooks.zoraCreatorCoin, 2)
        quoted == PoolLog("0x5000", "0x8335", Hooks.zoraV4Coin, 2)
        other == PoolLog("0x9000", "0xa000", "0xdead", 3)
    IN {<<other>>, <<usdc, other>>, <<bases, quoted, plain, usdc>>}

ScanSteps == {"fetch", "timestamps", "process", "store", "set"}

Running(i) == scans[i].pc \in ScanSteps

InProgress == {i \in DOMAIN scans : Running(i)}

(* logs.map(log => ({ ...log.args, blockNumber: log.blockNumber })) *)
TransformLogsToPoolKeys(logs) ==
    [k \in DOMAIN logs |->
        [currency0 |-> logs[k].args.currency0,
         currency1 |-> logs[k].args.currency1,
         hooks |-> logs[k].args.hooks,
         blockNumber |-> logs[k].blockNumber]]

(* a filter that keeps every pool key *)
FilterAllPools(poolKeys) == poolKeys

FilterZoraPools(poolKeys) ==
    SelectSeq(poolKeys, LAMBDA key : \/ key.hooks = Hooks.zoraCreatorCoin
                                     \/ key.hooks = Hooks.zoraV4Coin)

(* [...new Set(zoraPoolKeys.map(key => key.blockNumber))] *)
RECURSIVE UniqueBlockNumbers(_)
UniqueBlockNumbers(keys) ==
    IF keys = <<>> THEN <<>>
    ELSE LET seen == UniqueBlockNumbers(SubSeq(keys, 1, Len(keys) - 1))
             blockNumber == keys[Len(keys)].blockNumber
         IN IF blockNumber \in Range(seen) THEN seen
            ELSE Append(seen, blockNumber)

(* the Pool that loadPoolData builds: currencyNPrice is the price of      *)
(* currency N quoted in the other currency; the pool id is a function of  *)
(* the currencies and the hook                                             *)
LoadPoolData(key) ==
    [currency0 |-> key.currency0, currency1 |-> key.currency1,
     poolId |-> [currency0 |-> key.currency0, currency1 |-> key.currency1,
                 hooks |-> key.hooks],
     currency0Price |-> [base |-> key.currency0, quote |-> key.currency1],
     currency1Price |-> [base |-> key.currency1, quote |-> key.currency0]]

DetermineCoinType(hooks) ==
    IF hooks = Hooks.zoraCreatorCoin THEN "ZORA_CREATOR_COIN"
    ELSE "ZORA_V4_COIN"

DetermineAppType(pool) ==
    IF pool.currency0 \in TbaPairings \/ pool.currency1 \in TbaPairings
    THEN "TBA" ELSE "ZORA"

(* a choice of token that always takes currency0 *)
TokenIsCurrency0(pool) ==
    [tokenCurrency |-> pool.currency0, price |-> pool.currency0Price]

GetTokenCurrencyAndPrice(pool) ==
    IF pool.currency0 \in TbaPairings
    THEN [tokenCurrency |-> pool.currency1, price |-> pool.currency1Price]
    ELSE [tokenCurrency |-> pool.currency0, price |-> pool.currency0Price]

(* the TokenMetadata processPool returns when nothing fails *)
ProcessPool(key) ==
    LET pool == LoadPoolData(key)
        token == GetTokenCurrencyAndPrice(pool)
    IN [id |-> pool.poolId,
        address |-> token.tokenCurrency,
        price |-> token.price,
        coinType |-> DetermineCoinType(key.hooks),
        appType |-> DetermineAppType(pool),
        blockNumber |-> key.blockNumber]

(* a result slot: {} is null, {v} is the value v *)
Null == {}

(* the values in a sequence of result slots *)
Records(slots) == UNION Range(slots)

(* batch.map(item => processor(item)): the invocations of one batch *)
StartBatch(items, size, i) ==
    [k \in 1..Min(size, Len(items) - i) |-> [st |-> "pending", val |-> Null]]

(* batching(items, processor, batchSize, delay) up to its first await, and *)
(* the loop of fetchBlockTimestamps, which has the same shape              *)
Batching(items, worker, size) ==
    [items |-> items, worker |-> worker, size |-> size, i |-> 0,
     cur |-> StartBatch(items, size, 0), results |-> <<>>]

NoRun == Batching(<<>>, "none", 0)

Pending(run) == {k \in DOMAIN run.cur : run.cur[k].st = "pending"}

(* the values of the batch that Promise.all resolves with *)
BatchResults(run) == [k \in DOMAIN run.cur |-> run.cur[k].val]

(* what a processor of the batching utility resolves with for an item *)
Processed1(item) == <<"result", item>>

(* the run after invocation k of its batch settled: getBlock and a plain   *)
(* processor resolve or reject, processPool resolves with the token or,    *)
(* when anything in it fails, with null                                    *)
Settle(run, k, ok) ==
    LET item == run.items[run.i + k]
        settled ==
            IF run.worker = "processPool"
            THEN [st |-> "resolved",
                  val |-> IF ok THEN {ProcessPool(item)} ELSE Null]
            ELSE IF ~ok THEN [st |-> "rejected", val |-> Null]
            ELSE IF run.worker = "processor"
            THEN [st |-> "resolved", val |-> {Processed1(item)}]
            ELSE [st |-> "resolved", val |-> {item}]
    IN [run EXCEPT !.cur[k] = settled]

(* scanTokens up to its first await: the flag is set, the block range is   *)
(* computed and the event fetch is issued                                  *)
StartScan(via) ==
    /\ Len(scans) < budget.scans
    /\ isScanning' = TRUE
    /\ scans' = Append(scans, [via |-> via, pc |-> "fetch", logs |-> <<>>,
                               keys |-> <<>>, run |-> NoRun,
                               cache |-> {}, tokens |-> <<>>,
                               existing |-> [zora |-> <<>>, tba |-> <<>>],
                               sets |-> {}, written |-> {}, read |-> {}])

(* the cron callback finds the flag set and returns *)
CronTickSkip ==
    /\ isScanning
    /\ UNCHANGED vars

(* the cron callback finds the flag clear and awaits scanTokens *)
CronTickScan ==
    /\ ~isScanning
    /\ StartScan("cron")
    /\ UNCHANGED <<tokenStore, laterVars, budget, emojiVars, ntVars, cmVars, pubVars, subVars, sseVars>>

(* POST /tokens/scan: TokensService.triggerManualScan awaits scanTokens *)
TriggerManualScan ==
    /\ StartScan("manual")
    /\ UNCHANGED <<tokenStore, laterVars, budget, emojiVars, ntVars, cmVars, pubVars, subVars, sseVars>>

(* a finally block that leaves the flag as it is *)
FlagKept == isScanning

(* finally { this.isScanning = false } *)
FlagReleased == FALSE

(* scanTokens leaves through its finally block: the flag is cleared *)
FinishScan(i, how, tokens) ==
    /\ isScanning' = FlagReleased
    /\ scans' = SetAt(scans, i, [scans[i] EXCEPT !.pc = how,
                                                 !.tokens = tokens])

(* the number of logs the scans in S have fetched *)
RECURSIVE LogsFetched(_)
LogsFetched(S) ==
    IF S = {} THEN 0
    ELSE LET i == CHOOSE j \in S : TRUE
         IN Len(scans[i].logs) + LogsFetched(S \ {i})

(* fetchPoolEvents returns: the logs become pool keys, the keys are        *)
(* filtered; without a key the scan returns the empty result, otherwise    *)
(* the first batch of block fetches starts                                 *)
FetchPoolEvents(i, logs) ==
    /\ Running(i)
    /\ scans[i].pc = "fetch"
    /\ LogsFetched(DOMAIN scans) + Len(logs) <= budget.logs
    /\ LET zoraPoolKeys == FilterZoraPools(TransformLogsToPoolKeys(logs))
       IN IF zoraPoolKeys = <<>>
          THEN /\ isScanning' = FlagReleased
               /\ scans' = SetAt(scans, i, [scans[i] EXCEPT !.pc = "done",
                                                            !.logs = logs])
          ELSE /\ scans' = SetAt(scans, i,
                      [scans[i] EXCEPT
                          !.pc = "timestamps", !.logs = logs,
                          !.keys = zoraPoolKeys,
                          !.run = Batching(UniqueBlockNumbers(zoraPoolKeys),
                                           "getBlock", BlockBatchSize)])
               /\ UNCHANGED isScanning
    /\ UNCHANGED <<tokenStore, laterVars, budget, emojiVars, ntVars, cmVars, pubVars, subVars, sseVars>>

(* one invocation of a batch settles: getBlock resolves with the block or  *)
(* rejects when its retries are used up; processPool resolves with the     *)
(* token or, when anything in it fails, with null                          *)
WorkerSettle(i, k, ok) ==
    /\ k \in Pending(scans[i].run)
    /\ scans' = SetAt(scans, i,
           [scans[i] EXCEPT !.run = Settle(scans[i].run, k, ok)])
    /\ UNCHANGED <<isScanning, tokenStore, laterVars, budget, emojiVars, ntVars, cmVars, pubVars, subVars, sseVars>>

Awaiting(i) == Running(i) /\ scans[i].pc \in {"timestamps", "process"}

AllResolved(run) == \A k \in DOMAIN run.cur : run.cur[k].st = "resolved"

(* the batch's results put before the earlier ones *)
PushedFirst(run) == [run EXCEPT !.results = BatchResults(run) \o @]

(* the run after Promise.all resolved: results.push(...batchResults) *)
Pushed(run) == [run EXCEPT !.results = @ \o BatchResults(run)]

(* i + batchSize < items.length: another batch follows *)
MoreItems(run) == run.i + run.size < Len(run.items)

(* the results are pushed and, after the delay, the next batch starts *)
NextBatch(run) ==
    [Pushed(run) EXCEPT !.i = run.i + run.size,
                        !.cur = StartBatch(run.items, run.size,
                                           run.i + run.size)]

(* Promise.all of a batch resolves and items remain: after the delay the   *)
(* next batch starts                                                       *)
BatchNext(i) ==
    /\ Awaiting(i)
    /\ AllResolved(scans[i].run)
    /\ MoreItems(scans[i].run)
    /\ scans' = SetAt(scans, i,
           [scans[i] EXCEPT !.run = NextBatch(scans[i].run)])
    /\ UNCHANGED <<isScanning, tokenStore, laterVars, budget, emojiVars, ntVars, cmVars, pubVars, subVars, sseVars>>

(* Promise.all of a batch rejects as soon as one invocation has rejected:  *)
(* the loop throws, and so does scanTokens; the other invocations of the   *)
(* batch stay in flight                                                    *)
BatchRejected(i) ==
    /\ Awaiting(i)
    /\ \E k \in DOMAIN scans[i].run.cur : scans[i].run.cur[k].st = "rejected"
    /\ FinishScan(i, "failed", <<>>)
    /\ UNCHANGED <<tokenStore, laterVars, budget, emojiVars, ntVars, cmVars, pubVars, subVars, sseVars>>

(* fetchBlockTimestamps returns its cache: processPoolsBatched starts the  *)
(* first batch of processPool invocations                                  *)
TimestampsFetched(i) ==
    /\ Awaiting(i)
    /\ scans[i].pc = "timestamps"
    /\ AllResolved(scans[i].run)
    /\ scans[i].run.i + scans[i].run.size >= Len(scans[i].run.items)
    /\ scans' = SetAt(scans, i,
           [scans[i] EXCEPT !.pc = "process",
                            !.cache = Records(Pushed(scans[i].run).results),
                            !.run = Batching(scans[i].keys, "processPool",
                                             BatchSize)])
    /\ UNCHANGED <<isScanning, tokenStore, laterVars, budget, emojiVars, ntVars, cmVars, pubVars, subVars, sseVars>>

(* processPoolsBatched returns the results, nulls included, and           *)
(* storeTokens runs to its first await: tokens.filter(t => t.appType ...)  *)
(* throws on a null element, otherwise the two GETs are issued             *)
PoolsProcessed(i) ==
    /\ Awaiting(i)
    /\ scans[i].pc = "process"
    /\ AllResolved(scans[i].run)
    /\ scans[i].run.i + scans[i].run.size >= Len(scans[i].run.items)
    /\ LET run == Pushed(scans[i].run)
           tokens == run.results
       IN IF \E k \in DOMAIN tokens : tokens[k] = Null
          THEN /\ isScanning' = FlagReleased
               /\ scans' = SetAt(scans, i,
                      [scans[i] EXCEPT !.pc = "failed", !.run = run,
                                       !.tokens = tokens])
          ELSE /\ scans' = SetAt(scans, i,
                      [scans[i] EXCEPT !.pc = "store", !.run = run,
                                       !.tokens = tokens])
               /\ UNCHANGED isScanning
    /\ UNCHANGED <<tokenStore, laterVars, budget, emojiVars, ntVars, cmVars, pubVars, subVars, sseVars>>

(* the tokens of an app type, as storeTokens filters them *)
TokensOf(tokens, appType) ==
    LET some == SelectSeq(tokens, LAMBDA t : \E r \in t : r.appType = appType)
    IN [k \in DOMAIN some |-> CHOOSE r \in some[k] : TRUE]

(* Map.set(token.address, token): a new key goes last, a known key keeps   *)
(* its place and takes the new value                                       *)
MapSet(list, token) ==
    IF \E k \in DOMAIN list : list[k].address = token.address
    THEN [k \in DOMAIN list |->
             IF list[k].address = token.address THEN token ELSE list[k]]
    ELSE Append(list, token)

RECURSIVE MergeTokens(_, _)
MergeTokens(existing, newTokens) ==
    IF newTokens = <<>> THEN existing
    ELSE MergeTokens(MapSet(existing, Head(newTokens)), Tail(newTokens))

Partitions == {"zora", "tba"}

AppTypeOf(part) == IF part = "zora" THEN "ZORA" ELSE "TBA"

(* RedisService.get: the stored value, or null when the key is missing or  *)
(* the command failed; storeTokens reads existingData?.tokens || []        *)
ExistingTokens(part, got) == IF part \in got THEN tokenStore[part] ELSE <<>>

(* storeTokens: the two GETs return, those of the partitions in got with   *)
(* the stored value; the partitions are merged and the two SETs are issued *)
StoreGet(i, got) ==
    /\ Running(i)
    /\ scans[i].pc = "store"
    /\ scans' = SetAt(scans, i,
           [scans[i] EXCEPT !.pc = "set",
                            !.existing = [part \in Partitions |->
                                             ExistingTokens(part, got)],
                            !.sets = Partitions, !.read = got])
    /\ UNCHANGED <<isScanning, tokenStore, laterVars, budget, emojiVars, ntVars, cmVars, pubVars, subVars, sseVars>>

(* the partition that scan i SETs: its tokens merged into what it read *)
FinalTokens(i, part) ==
    MergeTokens(scans[i].existing[part],
                TokensOf(scans[i].tokens, AppTypeOf(part)))

(* storeTokens: one of the two SETs of Promise.all settles.  A SET that    *)
(* succeeds replaces its partition.  The first SET to fail rejects         *)
(* Promise.all and scanTokens throws, the other SET still being on its     *)
(* way; when both have succeeded scanTokens returns.                       *)
StoreSet(i, part, ok) ==
    /\ part \in scans[i].sets
    /\ tokenStore' = IF ok THEN [tokenStore EXCEPT ![part] = FinalTokens(i, part)]
                     ELSE tokenStore
    /\ LET rest == scans[i].sets \ {part}
           how == IF ~Running(i) THEN scans[i].pc
                  ELSE IF ~ok THEN "failed"
                  ELSE IF rest = {} THEN "done" ELSE "set"
       IN /\ scans' = SetAt(scans, i,
                 [scans[i] EXCEPT
                     !.sets = rest,
                     !.written = IF ok THEN @ \cup {part} ELSE @,
                     !.pc = how])
          /\ isScanning' = IF Running(i) /\ how # "set" THEN FlagReleased
                           ELSE isScanning
    /\ UNCHANGED <<laterVars, budget, emojiVars, ntVars, cmVars, pubVars, subVars, sseVars>>

(* the event fetch raises *)
ScanFail(i) ==
    /\ Running(i)
    /\ scans[i].pc = "fetch"
    /\ FinishScan(i, "failed", scans[i].tokens)
    /\ UNCHANGED <<tokenStore, laterVars, budget, emojiVars, ntVars, cmVars, pubVars, subVars, sseVars>>

-----------------------------------------------------------------------------
(* Reaction Engine *)

EmojiKinds == {"like", "love", "laugh", "wow", "sad"}
Increments == {1, 2, 3}

(* what the callers send *)
ReactTokens == {"0xAB", "0xab", "0xcd"}
ReactKinds == {"like", "love", "meh"}
ReactIncrements == 0 .. 4

EmojiKey(token) == "emoji:" \o Lower(token)
EmojiChannel(token) == "emojiUpdates:" \o Lower(token)
EmojiKeys == {EmojiKey(t) : t \in ReactTokens}

EmptyHash == [f \in {} |-> 0]

(* HGET parsed: parseInt(value || '0') *)
HGetCount(h, field) == IF field \in DOMAIN h THEN h[field] ELSE 0

(* a HINCRBY that overwrites the field instead of adding to it *)
HIncrByOverwrites(h, field, inc) == (field :> inc) @@ h

(* HINCRBY: an absent field counts from 0 *)
HIncrBy(h, field, inc) == (field :> (HGetCount(h, field) + inc)) @@ h

(* HSET *)
HSet(h, field, value) == (field :> value) @@ h

(* { like:'0', love:'0', laugh:'0', wow:'0', sad:'0', ...allCounts } *)
NormalizedCounts(h) ==
    [k \in EmojiKinds \cup DOMAIN h |-> IF k \in DOMAIN h THEN h[k] ELSE 0]

(* EmojiService.getCounts: the five fields, each defaulting to 0 *)
GetCounts(token) ==
    [k \in EmojiKinds |-> HGetCount(emojiHash[EmojiKey(token)], k)]

(* the events that have a background handler *)
EventNames == {"emoji.reacted", "new-token-created", "comment.created"}

(* EventBusService.publish: emit starts the handler registered for the     *)
(* event, which runs up to its first await; with no handler the event is   *)
(* dropped                                                                 *)
Emitted(eventName, pc) == IF eventName \in registered THEN pc ELSE "unhandled"

(* a validation that lets every emoji and increment through *)
AnyReaction(kind, inc) == TRUE

(* a handler whose failure reaches the request that published the event *)
Raised(task) == [task EXCEPT !.pc = "failed", !.response = "error"]

(* the catch block around a handler's body: the failure is logged and the  *)
(* handler returns                                                         *)
Caught(task) == [task EXCEPT !.pc = "failed"]

ValidReaction(kind, inc) == kind \in EmojiKinds /\ inc \in Increments

(* EmojiService.react with an emoji or increment it rejects: it throws     *)
(* BadRequestException before it creates the event                         *)
ReactRejected(token, kind, inc) ==
    /\ Cardinality(rejections) < budget.rejects
    /\ ~ValidReaction(kind, inc)
    /\ rejections' = rejections \cup
           {[token |-> token, emoji |-> kind, increment |-> inc,
             response |-> "BadRequest"]}
    /\ UNCHANGED <<wlVars, toolVars, registered, budget, scanVars, emojiVars, ntVars, cmVars, pubVars, subVars, sseVars>>

(* EmojiService.react: the event is published and the handler runs up to   *)
(* its first await, the MULTI pipeline                                      *)
React(token, kind, inc) ==
    /\ Len(reactions) < budget.reacts
    /\ StreamOps < budget.ops
    /\ ValidReaction(kind, inc)
    /\ reactions' = Append(reactions,
           [token |-> token, emoji |-> kind, increment |-> inc,
            pc |-> Emitted("emoji.reacted", "multi"),
            response |-> "processing",
            previousCount |-> 0, newCount |-> 0, counts |-> EmptyHash])
    /\ UNCHANGED <<laterVars, budget, scanVars, emojiHash, ntVars, cmVars, pubVars, subVars, sseVars>>

(* the handler's MULTI: HGET, HINCRBY, HGETALL in one transaction *)
EmojiMultiResult(h, field, inc) ==
    [previousCount |-> HGetCount(h, field),
     newCount      |-> HGetCount(HIncrBy(h, field, inc), field),
     counts        |-> HIncrBy(h, field, inc),
     hash          |-> HIncrBy(h, field, inc)]

EmojiMulti(r) ==
    /\ reactions[r].pc = "multi"
    /\ LET key == EmojiKey(reactions[r].token)
           res == EmojiMultiResult(emojiHash[key], reactions[r].emoji,
                                   reactions[r].increment)
       IN /\ emojiHash' = [emojiHash EXCEPT ![key] = res.hash]
          /\ reactions' = SetAt(reactions, r,
                 [reactions[r] EXCEPT
                    !.previousCount = res.previousCount,
                    !.newCount = res.newCount,
                    !.counts = res.counts,
                    !.pc = IF res.newCount < res.previousCount
                           THEN "revert" ELSE "publish"])
    /\ UNCHANGED <<laterVars, budget, scanVars, ntVars, cmVars, pubVars, subVars, sseVars>>

EmojiMessage(rec) ==
    [type |-> "emojiCountUpdate", counts |-> NormalizedCounts(rec.counts),
     emoji |-> rec.emoji, previousCount |-> rec.previousCount,
     newCount |-> rec.newCount]

(* after the MULTI: the revert of a regression, or the publish *)
EmojiPublish(r) ==
    /\ reactions[r].pc \in {"revert", "publish"}
    /\ IF reactions[r].pc = "revert"
       THEN /\ emojiHash' = [emojiHash EXCEPT ![EmojiKey(reactions[r].token)] =
                                 HSet(@, reactions[r].emoji,
                                      reactions[r].previousCount)]
            /\ UNCHANGED pubVars
       ELSE /\ RedisPublish(EmojiChannel(reactions[r].token),
                            EmojiMessage(reactions[r]))
            /\ UNCHANGED emojiHash
    /\ reactions' = SetAt(reactions, r, [reactions[r] EXCEPT !.pc = "done"])
    /\ UNCHANGED <<laterVars, budget, scanVars, ntVars, cmVars, subVars, sseVars>>

(* a store command of the handler fails: the catch block logs *)
EmojiFail(r) ==
    /\ reactions[r].pc \in {"multi", "revert", "publish"}
    /\ reactions' = SetAt(reactions, r, Caught(reactions[r]))
    /\ UNCHANGED <<laterVars, budget, scanVars, emojiHash, ntVars, cmVars, pubVars, subVars, sseVars>>

-----------------------------------------------------------------------------
(* External Feed Ingestor: the new-token-created handler.  Addresses are   *)
(* integers: the events of a run carry 1 .. MaxAddress, the entries stored *)
(* before the run carry negative ones.  The 86400 s expiry of the two keys *)
(* lies outside the runs.                                                  *)

NewTokensChannel == "new-tokens:updates"

TokenData(address) == [address |-> address]

(* new-tokens:list as earlier events left it, newest first *)
StoredList(n) == [i \in 1 .. n |-> TokenData(0 - i)]

(* the pipeline without its LTRIM *)
NewTokenListUntrimmed(list, tokenData) == LPush(list, tokenData)

(* LPUSH then LTRIM 0 199 *)
NewTokenListAfter(list, tokenData) ==
    LTrim(LPush(list, tokenData), 0, NewTokensTrimStop)

(* the event is emitted; the handler runs up to its first await, HEXISTS *)
NewTokenCreated(address) ==
    /\ Len(ntHandlers) < budget.tokenEvents
    /\ StreamOps < budget.ops
    /\ ntHandlers' = Append(ntHandlers,
                            [address |-> address,
                             pc |-> Emitted("new-token-created", "hexists")])
    /\ UNCHANGED <<laterVars, budget, scanVars, emojiVars, ntHash, ntList, cmVars, pubVars, subVars, sseVars>>

(* HEXISTS new-tokens:events <address> returns *)
NewTokenExists(h) ==
    /\ ntHandlers[h].pc = "hexists"
    /\ ntHandlers' = SetAt(ntHandlers, h,
           [ntHandlers[h] EXCEPT
              !.pc = IF ntHandlers[h].address \in ntHash THEN "done" ELSE "multi"])
    /\ UNCHANGED <<laterVars, budget, scanVars, emojiVars, ntHash, ntList, cmVars, pubVars, subVars, sseVars>>

(* the MULTI: HSET, EXPIRE, LPUSH, LTRIM, EXPIRE, PUBLISH *)
NewTokenMulti(h) ==
    /\ ntHandlers[h].pc = "multi"
    /\ ntHash' = ntHash \cup {ntHandlers[h].address}
    /\ ntList' = NewTokenListAfter(ntList, TokenData(ntHandlers[h].address))
    /\ RedisPublish(NewTokensChannel, TokenData(ntHandlers[h].address))
    /\ ntHandlers' = SetAt(ntHandlers, h, [ntHandlers[h] EXCEPT !.pc = "done"])
    /\ UNCHANGED <<laterVars, budget, scanVars, emojiVars, cmVars, subVars, sseVars>>

(* HEXISTS or the MULTI fails: the catch block logs *)
NewTokenFail(h) ==
    /\ ntHandlers[h].pc \in {"hexists", "multi"}
    /\ ntHandlers' = SetAt(ntHandlers, h, [ntHandlers[h] EXCEPT !.pc = "failed"])
    /\ UNCHANGED <<laterVars, budget, scanVars, emojiVars, ntHash, ntList, cmVars, pubVars, subVars, sseVars>>

-----------------------------------------------------------------------------
(* Comment Engine.  A comment row is the integer the database gave it as   *)
(* createdAt: a later insert gets a larger one.  The cached list holds the *)
(* rows as JSON; the integer stands for the whole row.                     *)

CommentTokens == {"0xAB", "0xab"}

(* the limits the callers of getLatest pass, after the controller's clamp  *)
(* Math.min(Math.max(limit, 1), 100)                                       *)
LatestLimits == {1, SmallLimit, MaxInitial}

CommentsListKey(token) == "comments:" \o Lower(token) \o ":list"
CommentsChannel(token) == "comments:" \o Lower(token)
CommentsKeys == {CommentsListKey(t) : t \in CommentTokens}

RECURSIVE NewestFirst(_, _)
(* findMany({ orderBy: { createdAt: 'desc' }, take }) *)
NewestFirst(rows, take) ==
    IF rows = {} \/ take = 0 THEN <<>>
    ELSE LET newest == CHOOSE x \in rows : \A y \in rows : y <= x
         IN <<newest>> \o NewestFirst(rows \ {newest}, take - 1)

(* a findMany that skips one row more *)
OlderThanNewestAndOne(rows, skip) ==
    {x \in rows : Cardinality({y \in rows : y > x}) > skip}

(* findMany({ orderBy: { createdAt: 'desc' }, skip }) *)
OlderThanNewest(rows, skip) ==
    {x \in rows : Cardinality({y \in rows : y > x}) >= skip}

(* multi().lpush(listKey, comment).ltrim(listKey, 0, 49) *)
CommentListAfter(list, comment) ==
    LTrim(LPush(list, comment), 0, CommentsTrimStop)

(* the comment.created event is emitted; the handler runs up to its first  *)
(* await, the database insert                                              *)
CommentCreated(token) ==
    /\ Len(cmHandlers) + Len(cmLatest) < budget.commentCalls
    /\ Len(cmHandlers) < budget.comments
    /\ StreamOps < budget.ops
    /\ cmHandlers' = Append(cmHandlers,
           [token |-> Lower(token),
            pc |-> Emitted("comment.created", "create"),
            response |-> "processing", logged |-> 0, comment |-> 0,
            older |-> {}])
    /\ UNCHANGED <<laterVars, budget, scanVars, emojiVars, ntVars, cmDb, cmClock, cmList,
                   cmLatest, pubVars, subVars, sseVars>>

(* prisma comment.create returns the new row *)
CommentPersist(h) ==
    /\ cmHandlers[h].pc = "create"
    /\ LET key == CommentsListKey(cmHandlers[h].token)
       IN /\ cmClock' = cmClock + 1
          /\ cmDb' = [cmDb EXCEPT ![key] = @ \cup {cmClock + 1}]
          /\ cmHandlers' = SetAt(cmHandlers, h,
                 [cmHandlers[h] EXCEPT !.pc = "cache", !.comment = cmClock + 1])
    /\ UNCHANGED <<laterVars, budget, scanVars, emojiVars, ntVars, cmList, cmLatest,
                   pubVars, subVars, sseVars>>

(* the write-through MULTI: LPUSH, LTRIM 0 49 *)
CommentCache(h) ==
    /\ cmHandlers[h].pc = "cache"
    /\ cmList' = [cmList EXCEPT ![CommentsListKey(cmHandlers[h].token)] =
                      CommentListAfter(@, cmHandlers[h].comment)]
    /\ cmHandlers' = SetAt(cmHandlers, h, [cmHandlers[h] EXCEPT !.pc = "publish"])
    /\ UNCHANGED <<laterVars, budget, scanVars, emojiVars, ntVars, cmDb, cmClock, cmLatest,
                   pubVars, subVars, sseVars>>

(* a message that carries a row the database has not stored *)
CommentMessageAhead(comment) == [type |-> "newComment", comment |-> comment + 1]

CommentMessage(comment) == [type |-> "newComment", comment |-> comment]

(* the newComment publish *)
CommentPublish(h) ==
    /\ cmHandlers[h].pc = "publish"
    /\ RedisPublish(CommentsChannel(cmHandlers[h].token),
                    CommentMessage(cmHandlers[h].comment))
    /\ cmHandlers' = SetAt(cmHandlers, h, [cmHandlers[h] EXCEPT !.pc = "findOlder"])
    /\ UNCHANGED <<laterVars, budget, scanVars, emojiVars, ntVars, cmDb, cmClock, cmList,
                   cmLatest, subVars, sseVars>>

(* the prune's findMany({ skip: 50 }) returns *)
CommentFindOlder(h) ==
    /\ cmHandlers[h].pc = "findOlder"
    /\ LET older == OlderThanNewest(cmDb[CommentsListKey(cmHandlers[h].token)],
                                    PruneSkip)
       IN cmHandlers' = SetAt(cmHandlers, h,
              [cmHandlers[h] EXCEPT !.older = older,
                                    !.pc = IF older = {} THEN "done"
                                           ELSE "deleteMany"])
    /\ UNCHANGED <<laterVars, budget, scanVars, emojiVars, ntVars, cmDb, cmClock, cmList,
                   cmLatest, pubVars, subVars, sseVars>>

(* the prune's deleteMany returns *)
CommentDeleteOlder(h) ==
    /\ cmHandlers[h].pc = "deleteMany"
    /\ cmDb' = [cmDb EXCEPT ![CommentsListKey(cmHandlers[h].token)] =
                    @ \ cmHandlers[h].older]
    /\ cmHandlers' = SetAt(cmHandlers, h, [cmHandlers[h] EXCEPT !.pc = "done"])
    /\ UNCHANGED <<laterVars, budget, scanVars, emojiVars, ntVars, cmClock, cmList,
                   cmLatest, pubVars, subVars, sseVars>>

(* a step of the handler fails: a failed comment.create reaches the outer  *)
(* catch block; the list update, the publish and the prune have their own, *)
(* which logs, and the handler goes on with the step after it              *)
CommentFail(h) ==
    /\ cmHandlers[h].pc \in {"create", "cache", "publish", "findOlder",
                              "deleteMany"}
    /\ cmHandlers' = SetAt(cmHandlers, h,
           IF cmHandlers[h].pc = "create" THEN Caught(cmHandlers[h])
           ELSE [cmHandlers[h] EXCEPT
                    !.logged = @ + 1,
                    !.pc = IF cmHandlers[h].pc = "cache" THEN "publish"
                           ELSE IF cmHandlers[h].pc = "publish"
                                THEN "findOlder" ELSE "done"])
    /\ UNCHANGED <<laterVars, budget, scanVars, emojiVars, ntVars, cmDb, cmClock, cmList,
                   cmLatest, pubVars, subVars, sseVars>>

(* CommentsService.getLatest is called and issues its LRANGE *)
RECURSIVE SumLimits(_)
SumLimits(n) == IF n = 0 THEN 0 ELSE SumLimits(n - 1) + cmLatest[n].limit

GetLatestCall(token, limit) ==
    /\ Len(cmHandlers) + Len(cmLatest) < budget.commentCalls
    /\ limit <= budget.limit
    /\ SumLimits(Len(cmLatest)) + limit <= budget.limitSum
    /\ cmLatest' = Append(cmLatest,
           [token |-> Lower(token), limit |-> limit, pc |-> "lrange",
            rows |-> <<>>, next |-> 0, result |-> <<>>, readAt |-> 0])

(* GET /comments/:tokenAddress *)
GetLatest(token, limit) ==
    /\ GetLatestCall(token, limit)
    /\ UNCHANGED <<laterVars, budget, scanVars, emojiVars, ntVars, cmDb, cmClock, cmList,
                   cmHandlers, pubVars, subVars, sseVars>>

(* LRANGE 0 max(0, limit - 1) returns: a non-empty list is the answer *)
LatestRange(l) ==
    /\ cmLatest[l].pc = "lrange"
    /\ LET raw == LRange(cmList[CommentsListKey(cmLatest[l].token)], 0,
                         Max(0, cmLatest[l].limit - 1))
       IN cmLatest' = SetAt(cmLatest, l,
              IF Len(raw) > 0
              THEN [cmLatest[l] EXCEPT !.pc = "done", !.result = raw,
                                       !.readAt = Len(pubLog)]
              ELSE [cmLatest[l] EXCEPT !.pc = "findMany"])
    /\ UNCHANGED <<laterVars, budget, scanVars, emojiVars, ntVars, cmDb, cmClock, cmList,
                   cmHandlers, pubVars, subVars, sseVars>>

(* the fallback's findMany({ take: limit }) returns *)
LatestFindMany(l) ==
    /\ cmLatest[l].pc = "findMany"
    /\ LET rows == NewestFirst(cmDb[CommentsListKey(cmLatest[l].token)],
                               cmLatest[l].limit)
       IN cmLatest' = SetAt(cmLatest, l,
              [cmLatest[l] EXCEPT !.rows = rows, !.next = Len(rows),
                                  !.readAt = Len(pubLog),
                                  !.pc = IF Len(rows) = 0 THEN "ltrim"
                                         ELSE "lpush"])
    /\ UNCHANGED <<laterVars, budget, scanVars, emojiVars, ntVars, cmDb, cmClock, cmList,
                   cmHandlers, pubVars, subVars, sseVars>>

(* one LPUSH of the warm loop, from the oldest row to the newest *)
LatestWarmPush(l) ==
    /\ cmLatest[l].pc = "lpush"
    /\ cmList' = [cmList EXCEPT ![CommentsListKey(cmLatest[l].token)] =
                      LPush(@, cmLatest[l].rows[cmLatest[l].next])]
    /\ cmLatest' = SetAt(cmLatest, l,
           [cmLatest[l] EXCEPT !.next = @ - 1,
                               !.pc = IF cmLatest[l].next = 1 THEN "ltrim"
                                      ELSE "lpush"])
    /\ UNCHANGED <<laterVars, budget, scanVars, emojiVars, ntVars, cmDb, cmClock,
                   cmHandlers, pubVars, subVars, sseVars>>

(* the warm's LTRIM 0 49; getLatest returns the rows it read *)
LatestWarmTrim(l) ==
    /\ cmLatest[l].pc = "ltrim"
    /\ cmList' = [cmList EXCEPT ![CommentsListKey(cmLatest[l].token)] =
                      LTrim(@, 0, WarmTrimStop)]
    /\ cmLatest' = SetAt(cmLatest, l,
           [cmLatest[l] EXCEPT !.pc = "done", !.result = cmLatest[l].rows])
    /\ UNCHANGED <<laterVars, budget, scanVars, emojiVars, ntVars, cmDb, cmClock,
                   cmHandlers, pubVars, subVars, sseVars>>

-----------------------------------------------------------------------------
(* SSE Broadcaster.  A client is one long-lived response: the controller   *)
(* writes the connection event, awaits the snapshot, writes it, registers  *)
(* its message handler and then its close handler.  An event written is    *)
(* [type, seq]; seq is the position of a delta's message in pubLog.        *)

StreamKinds == {"comments", "emoji", "newTokens"}
StreamInitials == {0, SmallLimit, MaxInitial + 1}

(* Math.min(Math.max(initial, 1), 100) *)
ClampInitial(initial) == Min(Max(initial, 1), MaxInitial)

Written(type, seq) == [type |-> type, seq |-> seq]

NewClient(kind, channel, token, limit, task) ==
    [kind |-> kind, channel |-> channel, token |-> token, limit |-> limit,
     task |-> task, pc |-> "read", closed |-> FALSE, closedAt |-> 0,
     since |-> 0, snapshot |-> <<>>, events |-> <<Written("connection", 0)>>,
     late |-> <<>>, readAt |-> 0]

Connected(c) == clients[c].pc = "open" /\ ~clients[c].closed

(* RedisService.subscribe: SUBSCRIBE on the subscriber connection and one  *)
(* more 'message' listener on it; target 0 is the launchpad fan-out        *)
RedisSubscribe(channel, target) ==
    /\ subscribed' = subscribed \cup {channel}
    /\ listeners' = Append(listeners, [channel |-> channel, target |-> target])

(* RedisService.unsubscribe: UNSUBSCRIBE; the listeners stay *)
RedisUnsubscribe(channel) ==
    /\ subscribed' = subscribed \ {channel}
    /\ UNCHANGED listeners

(* a controller's message handler runs: it writes the delta to its         *)
(* response; a closed response takes nothing                               *)
HandleMessage(client, m) ==
    IF client.kind \in {"comments", "emoji"}
       /\ m.message.type \notin {"newComment", "emojiCountUpdate"}
    THEN client
    ELSE IF client.closed
         THEN [client EXCEPT !.late = Append(@, m.seq)]
         ELSE [client EXCEPT !.events = Append(@, Written("delta", m.seq))]

(* the launchpad listener: every callback of sseSubscribers is called *)
FanOut(cl, m) ==
    [c \in DOMAIN cl |->
        IF c \in sseSubscribers THEN HandleMessage(cl[c], m) ELSE cl[c]]

(* one 'message' listener: it acts on its own channel only *)
OnMessage(cl, listener, m) ==
    IF listener.channel # m.channel THEN cl
    ELSE IF listener.target = 0 THEN FanOut(cl, m)
    ELSE [cl EXCEPT ![listener.target] = HandleMessage(@, m)]

(* the subscriber connection emits 'message': the listeners run in the     *)
(* order of their registration                                             *)
RECURSIVE EmitMessage(_, _, _)
EmitMessage(cl, ls, m) ==
    IF ls = <<>> THEN cl
    ELSE EmitMessage(OnMessage(cl, Head(ls), m), Tail(ls), m)

(* the next message the store sent arrives at the process *)
Deliver ==
    /\ inflight # <<>>
    /\ clients' = EmitMessage(clients, listeners, Head(inflight))
    /\ inflight' = Tail(inflight)
    /\ UNCHANGED <<laterVars, budget, scanVars, emojiVars, ntVars, cmVars, pubLog, subVars,
                   sseSubscribers, isRedisSubscribed>>

CanStream(kind) ==
    /\ Len(clients) < budget.clients
    /\ StreamOps < budget.ops
    /\ kind \in budget.streams

(* GET /comments/stream/:tokenAddress up to its await of getLatest *)
CommentsStream(token, initial) ==
    /\ CanStream("comments")
    /\ GetLatestCall(token, ClampInitial(initial))
    /\ clients' = Append(clients,
           NewClient("comments", CommentsChannel(token), Lower(token),
                     ClampInitial(initial), Len(cmLatest) + 1))
    /\ UNCHANGED <<laterVars, budget, scanVars, emojiVars, ntVars, cmDb, cmClock, cmList,
                   cmHandlers, pubVars, subVars, sseSubscribers,
                   isRedisSubscribed>>

(* after the await: the snapshot is written and the handler subscribed *)
StreamSubscribed(c, snapshot) ==
    [clients[c] EXCEPT !.pc = "open", !.since = Len(pubLog),
                       !.snapshot = snapshot,
                       !.events = IF clients[c].closed THEN @
                                  ELSE Append(@, Written("snapshot", 0))]

CommentsStreamSubscribe(c) ==
    /\ clients[c].kind = "comments"
    /\ clients[c].pc = "read"
    /\ cmLatest[clients[c].task].pc = "done"
    /\ clients' = SetAt(clients, c,
           [StreamSubscribed(c, cmLatest[clients[c].task].result)
               EXCEPT !.readAt = cmLatest[clients[c].task].readAt])
    /\ RedisSubscribe(clients[c].channel, c)
    /\ UNCHANGED <<laterVars, budget, scanVars, emojiVars, ntVars, cmVars, pubVars,
                   sseSubscribers, isRedisSubscribed>>

(* EmojiStream with the handler subscribed before the snapshot is awaited *)
EmojiStreamSubscribesFirst(token) ==
    /\ CanStream("emoji")
    /\ clients' = Append(clients,
           NewClient("emoji", EmojiChannel(token), Lower(token), 0, 0))
    /\ RedisSubscribe(EmojiChannel(token), Len(clients) + 1)
    /\ UNCHANGED <<laterVars, budget, scanVars, emojiVars, ntVars, cmVars, pubVars,
                   sseSubscribers, isRedisSubscribed>>

(* GET /emoji/stream/:tokenAddress up to its await of getCounts *)
EmojiStream(token) ==
    /\ CanStream("emoji")
    /\ clients' = Append(clients,
           NewClient("emoji", EmojiChannel(token), Lower(token), 0, 0))
    /\ UNCHANGED <<laterVars, budget, scanVars, emojiVars, ntVars, cmVars, pubVars, subVars,
                   sseSubscribers, isRedisSubscribed>>

(* the store answers the HGETALL of getCounts *)
EmojiStreamCounts(c) ==
    /\ clients[c].kind = "emoji"
    /\ clients[c].pc = "read"
    /\ clients' = SetAt(clients, c,
           [clients[c] EXCEPT !.pc = "write", !.readAt = Len(pubLog),
                              !.snapshot = GetCounts(clients[c].token)])
    /\ UNCHANGED <<laterVars, budget, scanVars, emojiVars, ntVars, cmVars, pubVars, subVars,
                   sseSubscribers, isRedisSubscribed>>

EmojiStreamSubscribe(c) ==
    /\ clients[c].kind = "emoji"
    /\ clients[c].pc = "write"
    /\ clients' = SetAt(clients, c, StreamSubscribed(c, clients[c].snapshot))
    /\ RedisSubscribe(clients[c].channel, c)
    /\ UNCHANGED <<laterVars, budget, scanVars, emojiVars, ntVars, cmVars, pubVars,
                   sseSubscribers, isRedisSubscribed>>

(* the close (or error) event of a comments or emoji response: the handler *)
(* registered after the subscription unsubscribes the channel; before that *)
(* no handler is registered                                                *)
StreamClose(c) ==
    /\ clients[c].kind \in {"comments", "emoji"}
    /\ ~clients[c].closed
    /\ clients' = SetAt(clients, c,
           [clients[c] EXCEPT !.closed = TRUE, !.closedAt = Len(pubLog)])
    /\ IF clients[c].pc = "open"
       THEN RedisUnsubscribe(clients[c].channel)
       ELSE UNCHANGED subVars
    /\ UNCHANGED <<laterVars, budget, scanVars, emojiVars, ntVars, cmVars, pubVars,
                   sseSubscribers, isRedisSubscribed>>

(* GET /new-tokens/stream up to its await of getInitialSnapshot *)
StreamTokens(initial) ==
    /\ CanStream("newTokens")
    /\ clients' = Append(clients,
           NewClient("newTokens", NewTokensChannel, "", ClampInitial(initial),
                     0))
    /\ UNCHANGED <<laterVars, budget, scanVars, emojiVars, ntVars, cmVars, pubVars, subVars,
                   sseSubscribers, isRedisSubscribed>>

(* NewTokensService.getInitialSnapshot: the store answers the LRANGE *)
GetInitialSnapshot(c) ==
    /\ clients[c].kind = "newTokens"
    /\ clients[c].pc = "read"
    /\ clients' = SetAt(clients, c,
           [clients[c] EXCEPT
              !.pc = "write", !.readAt = Len(pubLog),
              !.snapshot = LRange(ntList, 0, Max(0, clients[c].limit - 1))])
    /\ UNCHANGED <<laterVars, budget, scanVars, emojiVars, ntVars, cmVars, pubVars, subVars,
                   sseSubscribers, isRedisSubscribed>>

(* the snapshot is written; NewTokensService.subscribeToTokenUpdates *)
SubscribeToTokenUpdates(c) ==
    /\ clients[c].kind = "newTokens"
    /\ clients[c].pc = "write"
    /\ clients' = SetAt(clients, c, StreamSubscribed(c, clients[c].snapshot))
    /\ sseSubscribers' = sseSubscribers \cup {c}
    /\ IF ~isRedisSubscribed
       THEN RedisSubscribe(NewTokensChannel, 0)
       ELSE UNCHANGED subVars
    /\ isRedisSubscribed' = TRUE
    /\ UNCHANGED <<laterVars, budget, scanVars, emojiVars, ntVars, cmVars, pubVars>>

(* the close (or error) event of a launchpad response:                     *)
(* NewTokensService.unsubscribeFromTokenUpdates once its handler exists    *)
UnsubscribeFromTokenUpdates(c) ==
    /\ clients[c].kind = "newTokens"
    /\ ~clients[c].closed
    /\ clients' = SetAt(clients, c,
           [clients[c] EXCEPT !.closed = TRUE, !.closedAt = Len(pubLog)])
    /\ IF clients[c].pc = "open"
       THEN /\ sseSubscribers' = sseSubscribers \ {c}
            /\ IF sseSubscribers \ {c} = {} /\ isRedisSubscribed
               THEN /\ RedisUnsubscribe(NewTokensChannel)
                    /\ isRedisSubscribed' = FALSE
               ELSE UNCHANGED <<subVars, isRedisSubscribed>>
       ELSE UNCHANGED <<subVars, sseSubscribers, isRedisSubscribed>>
    /\ UNCHANGED <<laterVars, budget, scanVars, emojiVars, ntVars, cmVars, pubVars>>

-----------------------------------------------------------------------------
(* Watchlist Engine.  A user is its lower-cased wallet; the rows of a      *)
(* wallet are its token addresses in insertion order, unique per wallet    *)
(* (the unique index on userId, tokenAddress).  A call records what its    *)
(* wallet's data was when it was made and when it ended.                   *)

WatchWallets == {"0xAB", "0xcd"}
WatchTokens == {"0xAB", "0xab", "0xcd"}
WatchTokenLists == {<<"0xAB">>, <<"0xcd">>, <<"0xAB", "0xab">>,
                    <<"0xab", "0xcd">>}
WatchKeys == {Lower(w) : w \in WatchWallets}
ListLimits == {1, 2, 20}

LowerAll(tokens) == [i \in DOMAIN tokens |-> Lower(tokens[i])]

(* what a call can see of its wallet *)
WatchState(w) ==
    [user |-> w \in wlUsers, rows |-> wlRows[w], set |-> wlKv[w],
     events |-> Len(wlEvents)]

WatchStateAfter(w) ==
    [user |-> w \in wlUsers', rows |-> wlRows'[w], set |-> wlKv'[w],
     events |-> Len(wlEvents')]

WatchCall(op, wallet, tokens, pc) ==
    [op |-> op, wallet |-> Lower(wallet), tokens |-> tokens, pc |-> pc,
     newAddresses |-> <<>>, inserted |-> 0, status |-> "", count |-> 0,
     found |-> FALSE, before |-> WatchState(Lower(wallet)),
     after |-> WatchState(Lower(wallet))]

(* a call is accepted; a sequential run makes it after the last one ended *)
CanWatch ==
    /\ Len(wlTasks) < budget.watch
    /\ budget.sequential => \A i \in DOMAIN wlTasks : wlTasks[i].pc = "done"

(* findMany({ tokenAddress: { in: tokenAddresses } }) *)
ExistingItems(rows, tokenAddresses) ==
    {r \in Range(rows) : r \in Range(tokenAddresses)}

(* tokenAddresses.filter(addr => !existingSet.has(addr)) *)
NewAddresses(tokenAddresses, existingSet) ==
    SelectSeq(tokenAddresses, LAMBDA a : a \notin existingSet)

(* a createMany that inserts nothing *)
CreateManySkipsAll(rows, addresses) == rows

(* createMany({ skipDuplicates: true }): a row that exists is skipped *)
RECURSIVE CreateMany(_, _)
CreateMany(rows, addresses) ==
    IF addresses = <<>> THEN rows
    ELSE CreateMany(IF Head(addresses) \in Range(rows) THEN rows
                    ELSE Append(rows, Head(addresses)),
                    Tail(addresses))

(* a deleteMany that deletes the oldest matching row only *)
DeleteManyFirst(rows, tokenAddresses) ==
    LET hits == {k \in DOMAIN rows : rows[k] \in Range(tokenAddresses)}
    IN IF hits = {} THEN rows
       ELSE LET k == CHOOSE h \in hits : \A g \in hits : h <= g
            IN SubSeq(rows, 1, k - 1) \o SubSeq(rows, k + 1, Len(rows))

(* a user lookup that finds a user for every wallet *)
UserAssumed(wallet) == TRUE

(* user.findUnique({ where: { walletAddress } }) *)
UserFound(wallet) == wallet \in wlUsers

(* deleteMany({ tokenAddress: { in: tokenAddresses } }) *)
DeleteMany(rows, tokenAddresses) ==
    SelectSeq(rows, LAMBDA r : r \notin Range(tokenAddresses))

WatchDone(i, status, count) ==
    [wlTasks[i] EXCEPT !.pc = "done", !.status = status, !.count = count,
                       !.after = WatchStateAfter(wlTasks[i].wallet)]

(* POST /watchlist/add up to the await of the upsert *)
AddToWatchlist(wallet, tokens) ==
    /\ CanWatch
    /\ wlTasks' = Append(wlTasks, WatchCall("add", wallet, tokens, "upsert"))
    /\ UNCHANGED <<toolVars, registered, rejections, budget, scanVars, emojiVars, ntVars, cmVars, pubVars, subVars,
                   sseVars, wlUsers, wlRows, wlKv, wlEvents>>

AddUpsert(i) ==
    /\ wlTasks[i].op = "add" /\ wlTasks[i].pc = "upsert"
    /\ wlUsers' = wlUsers \cup {wlTasks[i].wallet}
    /\ wlTasks' = SetAt(wlTasks, i, [wlTasks[i] EXCEPT !.pc = "findMany"])
    /\ UNCHANGED <<toolVars, registered, rejections, budget, scanVars, emojiVars, ntVars, cmVars, pubVars, subVars,
                   sseVars, wlRows, wlKv, wlEvents>>

(* the existing items are read; with nothing new the call returns 0 *)
AddFindMany(i) ==
    /\ wlTasks[i].op = "add" /\ wlTasks[i].pc = "findMany"
    /\ UNCHANGED <<toolVars, registered, rejections, budget, scanVars, emojiVars, ntVars, cmVars, pubVars, subVars,
                   sseVars, wlUsers, wlRows, wlKv, wlEvents>>
    /\ LET tokenAddresses == LowerAll(wlTasks[i].tokens)
           new == NewAddresses(tokenAddresses,
                     ExistingItems(wlRows[wlTasks[i].wallet], tokenAddresses))
       IN wlTasks' = SetAt(wlTasks, i,
              IF Len(new) = 0 THEN WatchDone(i, "ok", 0)
              ELSE [wlTasks[i] EXCEPT !.pc = "createMany",
                                      !.newAddresses = new])

AddCreateMany(i) ==
    /\ wlTasks[i].op = "add" /\ wlTasks[i].pc = "createMany"
    /\ wlRows' = [wlRows EXCEPT ![wlTasks[i].wallet] =
                     CreateMany(@, wlTasks[i].newAddresses)]
    /\ wlTasks' = SetAt(wlTasks, i,
           [wlTasks[i] EXCEPT
              !.pc = "cache",
              !.inserted = Len(wlRows'[wlTasks[i].wallet])
                           - Len(wlRows[wlTasks[i].wallet])])
    /\ UNCHANGED <<toolVars, registered, rejections, budget, scanVars, emojiVars, ntVars, cmVars, pubVars, subVars,
                   sseVars, wlUsers, wlKv, wlEvents>>

(* the SADD pipeline and the token.added event; addedCount is returned *)
AddCache(i) ==
    /\ wlTasks[i].op = "add" /\ wlTasks[i].pc = "cache"
    /\ wlKv' = [wlKv EXCEPT ![wlTasks[i].wallet] =
                   @ \cup Range(wlTasks[i].newAddresses)]
    /\ wlEvents' = Append(wlEvents,
           [eventName |-> "user.watchlist.token.added",
            userId |-> wlTasks[i].wallet,
            tokenAddresses |-> wlTasks[i].newAddresses])
    /\ UNCHANGED <<toolVars, registered, rejections, budget, scanVars, emojiVars, ntVars, cmVars, pubVars, subVars,
                   sseVars, wlUsers, wlRows>>
    /\ wlTasks' = SetAt(wlTasks, i,
                        WatchDone(i, "ok", Len(wlTasks[i].newAddresses)))

(* DELETE /watchlist/remove up to the await of the user lookup *)
RemoveFromWatchlist(wallet, tokens) ==
    /\ CanWatch
    /\ wlTasks' = Append(wlTasks,
                         WatchCall("remove", wallet, tokens, "findUser"))
    /\ UNCHANGED <<toolVars, registered, rejections, budget, scanVars, emojiVars, ntVars, cmVars, pubVars, subVars,
                   sseVars, wlUsers, wlRows, wlKv, wlEvents>>

(* no user: NotFoundException *)
RemoveFindUser(i) ==
    /\ wlTasks[i].op = "remove" /\ wlTasks[i].pc = "findUser"
    /\ UNCHANGED <<toolVars, registered, rejections, budget, scanVars, emojiVars, ntVars, cmVars, pubVars, subVars,
                   sseVars, wlUsers, wlRows, wlKv, wlEvents>>
    /\ wlTasks' = SetAt(wlTasks, i,
           IF UserFound(wlTasks[i].wallet)
           THEN [wlTasks[i] EXCEPT !.pc = "deleteMany"]
           ELSE WatchDone(i, "NotFound", 0))

(* deleteMany; with nothing deleted the call returns 0 *)
RemoveDeleteMany(i) ==
    /\ wlTasks[i].op = "remove" /\ wlTasks[i].pc = "deleteMany"
    /\ wlRows' = [wlRows EXCEPT ![wlTasks[i].wallet] =
                     DeleteMany(@, LowerAll(wlTasks[i].tokens))]
    /\ UNCHANGED <<toolVars, registered, rejections, budget, scanVars, emojiVars, ntVars, cmVars, pubVars, subVars,
                   sseVars, wlUsers, wlKv, wlEvents>>
    /\ LET count == Len(wlRows[wlTasks[i].wallet])
                    - Len(wlRows'[wlTasks[i].wallet])
       IN wlTasks' = SetAt(wlTasks, i,
              IF count = 0 THEN WatchDone(i, "ok", 0)
              ELSE [wlTasks[i] EXCEPT !.pc = "cache", !.count = count])

(* the SREM pipeline and the token.removed event; the count is returned *)
RemoveCache(i) ==
    /\ wlTasks[i].op = "remove" /\ wlTasks[i].pc = "cache"
    /\ wlKv' = [wlKv EXCEPT ![wlTasks[i].wallet] =
                   @ \ Range(LowerAll(wlTasks[i].tokens))]
    /\ wlEvents' = Append(wlEvents,
           [eventName |-> "user.watchlist.token.removed",
            userId |-> wlTasks[i].wallet,
            tokenAddresses |-> wlTasks[i].tokens])
    /\ UNCHANGED <<toolVars, registered, rejections, budget, scanVars, emojiVars, ntVars, cmVars, pubVars, subVars,
                   sseVars, wlUsers, wlRows>>
    /\ wlTasks' = SetAt(wlTasks, i, WatchDone(i, "ok", wlTasks[i].count))

(* GET /watchlist/check/:walletAddress/:tokenAddress *)
IsTokenInWatchlist(wallet, token) ==
    /\ CanWatch
    /\ wlTasks' = Append(wlTasks,
                         WatchCall("check", wallet, <<token>>, "findUser"))
    /\ UNCHANGED <<toolVars, registered, rejections, budget, scanVars, emojiVars, ntVars, cmVars, pubVars, subVars,
                   sseVars, wlUsers, wlRows, wlKv, wlEvents>>

(* the token taken as it was given *)
TokenAddressAsGiven(token) == token

(* the token as the lookup of isTokenInWatchlist takes it *)
NormalizedTokenAddress(token) == Lower(token)

CheckFindUser(i) ==
    /\ wlTasks[i].op = "check" /\ wlTasks[i].pc = "findUser"
    /\ UNCHANGED <<toolVars, registered, rejections, budget, scanVars, emojiVars, ntVars, cmVars, pubVars, subVars,
                   sseVars, wlUsers, wlRows, wlKv, wlEvents>>
    /\ wlTasks' = SetAt(wlTasks, i,
           IF UserFound(wlTasks[i].wallet)
           THEN [wlTasks[i] EXCEPT !.pc = "findFirst"]
           ELSE WatchDone(i, "ok", 0))

CheckFindFirst(i) ==
    /\ wlTasks[i].op = "check" /\ wlTasks[i].pc = "findFirst"
    /\ UNCHANGED <<toolVars, registered, rejections, budget, scanVars, emojiVars, ntVars, cmVars, pubVars, subVars,
                   sseVars, wlUsers, wlRows, wlKv, wlEvents>>
    /\ wlTasks' = SetAt(wlTasks, i,
           [WatchDone(i, "ok", 0) EXCEPT
              !.found = NormalizedTokenAddress(wlTasks[i].tokens[1])
                          \in Range(wlRows[wlTasks[i].wallet])])

(* validatePaginationParams *)
ValidatedPage(page) == Max(1, page)
ValidatedLimit(limit) == Min(MaxInitial, Max(1, limit))

(* Math.ceil(total / limit) *)
TotalPages(total, limit) == (total + limit - 1) \div limit

(* getWatchlist: the page's rows, newest first, or NotFound *)
GetWatchlist(wallet, page, limit) ==
    LET w == Lower(wallet)
        p == ValidatedPage(page)
        l == ValidatedLimit(limit)
        total == Len(wlRows[w])
        newest == [k \in 1 .. total |-> wlRows[w][total + 1 - k]]
    IN IF w \notin wlUsers THEN [status |-> "NotFound", data |-> <<>>]
       ELSE [status |-> "ok",
             data |-> IF total = 0 THEN <<>>
                      ELSE SubSeq(newest, (p - 1) * l + 1, Min(p * l, total))]

(* the entries of all the pages of a wallet's list *)
ListedTokens(wallet, limit) ==
    UNION {Range(GetWatchlist(wallet, p, limit).data) :
             p \in 1 .. TotalPages(Len(wlRows[Lower(wallet)]),
                                   ValidatedLimit(limit))}

-----------------------------------------------------------------------------
(* Retry Executor: RetryService.retryWithBackoff.  The message of an error *)
(* is the sequence of its parts; includes(x) holds when x is a part.       *)

DefaultMaxRetries == 3
DefaultBaseDelay == 1000

RetryLimits == 0 .. DefaultMaxRetries

RetryErrors ==
    {[status |-> 429, message |-> <<"Too Many Requests">>],
     [status |-> 0, message |-> <<"HTTP", "429">>],
     [status |-> 0, message |-> <<"rate limit", "exceeded">>],
     [status |-> 0, message |-> <<"Rate Limit">>],
     [status |-> 500, message |-> <<"execution reverted">>]}

(* throw new Error('Max retries exceeded') *)
MaxRetriesExceeded == [status |-> 0, message |-> <<"Max retries exceeded">>]

NoError == [status |-> 0, message |-> <<>>]

IsRateLimit(error) ==
    \/ error.status = 429
    \/ "429" \in Range(error.message)
    \/ "rate limit" \in Range(error.message)

RECURSIVE Pow2(_)
Pow2(n) == IF n = 0 THEN 1 ELSE 2 * Pow2(n - 1)

(* baseDelay * Math.pow(2, attempt) *)
BackoffDelay(baseDelay, attempt) == baseDelay * Pow2(attempt)

(* a retry decision that ignores what the failure was *)
RetryAnyError(error, attempt, maxRetries) == attempt < maxRetries - 1

(* if (isRateLimit && attempt < maxRetries - 1) *)
ShouldRetry(error, attempt, maxRetries) ==
    IsRateLimit(error) /\ attempt < maxRetries - 1

(* retryWithBackoff is called: with maxRetries 0 the loop is skipped and   *)
(* the call throws, otherwise fn is invoked                                *)
RetryWithBackoff(maxRetries) ==
    /\ Len(retries) < budget.retries
    /\ retries' = Append(retries,
           [maxRetries |-> maxRetries, baseDelay |-> DefaultBaseDelay,
            attempt |-> 0, calls |-> IF maxRetries > 0 THEN 1 ELSE 0,
            failures |-> <<>>, delays |-> <<>>,
            pc |-> IF maxRetries > 0 THEN "fn" ELSE "thrown",
            error |-> IF maxRetries > 0 THEN NoError ELSE MaxRetriesExceeded])
    /\ UNCHANGED <<budget, scanVars, emojiVars, ntVars, cmVars, pubVars, subVars, sseVars, wlVars, registered, rejections, batchRuns, creates>>

(* await fn() resolves: its value is returned *)
FnResolves(i) ==
    /\ retries[i].pc = "fn"
    /\ retries' = SetAt(retries, i, [retries[i] EXCEPT !.pc = "returned"])
    /\ UNCHANGED <<budget, scanVars, emojiVars, ntVars, cmVars, pubVars, subVars, sseVars, wlVars, registered, rejections, batchRuns, creates>>

(* await fn() rejects: a rate limit before the last attempt starts the     *)
(* backoff timer, any other failure is thrown                              *)
FnRejects(i, error) ==
    /\ retries[i].pc = "fn"
    /\ LET t == retries[i]
           failed == [t EXCEPT !.failures = Append(@, error)]
       IN retries' = SetAt(retries, i,
              IF ShouldRetry(error, t.attempt, t.maxRetries)
              THEN [failed EXCEPT
                       !.pc = "delay",
                       !.delays = Append(@, BackoffDelay(t.baseDelay,
                                                         t.attempt))]
              ELSE [failed EXCEPT !.pc = "thrown", !.error = error])
    /\ UNCHANGED <<budget, scanVars, emojiVars, ntVars, cmVars, pubVars, subVars, sseVars, wlVars, registered, rejections, batchRuns, creates>>

(* the backoff timer fires: the next attempt invokes fn *)
DelayElapsed(i) ==
    /\ retries[i].pc = "delay"
    /\ retries' = SetAt(retries, i,
           [retries[i] EXCEPT !.pc = "fn", !.attempt = @ + 1,
                              !.calls = @ + 1])
    /\ UNCHANGED <<budget, scanVars, emojiVars, ntVars, cmVars, pubVars, subVars, sseVars, wlVars, registered, rejections, batchRuns, creates>>

-----------------------------------------------------------------------------
(* Batch Executor: the batching utility called on its own, with a          *)
(* processor that resolves or rejects for each item.                       *)

BatchSizes == 1 .. MaxBatchSize

(* input arrays of every length up to MaxItems, with distinct items *)
BatchInputs == {[k \in 1 .. n |-> k] : n \in 0 .. MaxItems}

(* batching(items, processor, batchSize) up to its first await; an empty   *)
(* input skips the loop and returns the empty results                      *)
BatchingCall(items, size) ==
    /\ Len(batchRuns) < budget.batches
    /\ batchRuns' = Append(batchRuns,
           [run |-> Batching(items, "processor", size),
            pc |-> IF items = <<>> THEN "returned" ELSE "running"])
    /\ UNCHANGED <<budget, scanVars, emojiVars, ntVars, cmVars, pubVars, subVars, sseVars, wlVars, registered, rejections, retries, creates>>

(* one invocation of the processor settles *)
ProcessorSettle(j, k, ok) ==
    /\ batchRuns[j].pc \in {"running", "rejected"}
    /\ k \in Pending(batchRuns[j].run)
    /\ batchRuns' = SetAt(batchRuns, j,
           [batchRuns[j] EXCEPT !.run = Settle(batchRuns[j].run, k, ok)])
    /\ UNCHANGED <<budget, scanVars, emojiVars, ntVars, cmVars, pubVars, subVars, sseVars, wlVars, registered, rejections, retries, creates>>

(* Promise.all resolves and items remain: the next batch starts *)
BatchingNext(j) ==
    /\ batchRuns[j].pc = "running"
    /\ AllResolved(batchRuns[j].run)
    /\ MoreItems(batchRuns[j].run)
    /\ batchRuns' = SetAt(batchRuns, j,
           [batchRuns[j] EXCEPT !.run = NextBatch(batchRuns[j].run)])
    /\ UNCHANGED <<budget, scanVars, emojiVars, ntVars, cmVars, pubVars, subVars, sseVars, wlVars, registered, rejections, retries, creates>>

(* Promise.all of the last batch resolves: return results *)
BatchingReturns(j) ==
    /\ batchRuns[j].pc = "running"
    /\ AllResolved(batchRuns[j].run)
    /\ ~MoreItems(batchRuns[j].run)
    /\ batchRuns' = SetAt(batchRuns, j,
           [batchRuns[j] EXCEPT !.pc = "returned",
                                !.run = Pushed(batchRuns[j].run)])
    /\ UNCHANGED <<budget, scanVars, emojiVars, ntVars, cmVars, pubVars, subVars, sseVars, wlVars, registered, rejections, retries, creates>>

(* Promise.all rejects as soon as one invocation has rejected: batching    *)
(* throws                                                                  *)
BatchingRejects(j) ==
    /\ batchRuns[j].pc = "running"
    /\ \E k \in DOMAIN batchRuns[j].run.cur :
          batchRuns[j].run.cur[k].st = "rejected"
    /\ batchRuns' = SetAt(batchRuns, j, [batchRuns[j] EXCEPT !.pc = "rejected"])
    /\ UNCHANGED <<budget, scanVars, emojiVars, ntVars, cmVars, pubVars, subVars, sseVars, wlVars, registered, rejections, retries, creates>>

-----------------------------------------------------------------------------
(* Comment Engine, create.  CommentsService.create resolves the user of   *)
(* the wallet with findUnique and, finding none, user.create; the user     *)
(* table is the one the watchlist uses, one row per lower-cased wallet     *)
(* (findUnique on walletAddress needs the column to be unique).            *)

MaxCreateCalls == 2

CreateWallets == {"0xAB", "0xab", "0xZZ"}

(* the test of /^0x[a-fA-F0-9]{40}$/ on the wallets the runs use; 0xZZ     *)
(* is a wallet with a digit that is not hexadecimal                        *)
WalletFormat(wallet) == wallet \in {"0xAB", "0xab", "0xCD", "0xcd"}

InvalidWallet == "Invalid wallet address format"

DatabaseFailed == "Database connection failed. Please try again later."

(* user.create({ data: { walletAddress } }) under the unique index *)
Inserted(wallet) == wallet \notin wlUsers

(* eventBus.publish(event) of create: the comment.created handler runs up *)
(* to its database insert                                                  *)
CreatePublish(token) ==
    cmHandlers' = Append(cmHandlers,
        [token |-> Lower(token),
         pc |-> Emitted("comment.created", "create"),
         response |-> "processing", logged |-> 0, comment |-> 0,
         older |-> {}])

(* create up to the await of findUnique, or its throw on the wallet *)
CreateComment(token, wallet) ==
    /\ Len(creates) < budget.creates
    /\ creates' = Append(creates,
           [token |-> token, wallet |-> wallet, user |-> "unread",
            pc |-> IF WalletFormat(wallet) THEN "findUnique" ELSE "rejected",
            status |-> IF WalletFormat(wallet) THEN "pending"
                       ELSE InvalidWallet])
    /\ UNCHANGED <<budget, scanVars, emojiVars, ntVars, cmVars, pubVars, subVars,
                   sseVars, wlVars, registered, rejections, retries, batchRuns>>

(* findUnique answers: with a user the event is published and the stub    *)
(* returned, without one the call awaits user.create                       *)
CreateFindUnique(i) ==
    /\ creates[i].pc = "findUnique"
    /\ IF UserFound(Lower(creates[i].wallet))
       THEN /\ creates' = SetAt(creates, i,
                   [creates[i] EXCEPT !.user = "found", !.pc = "done",
                                      !.status = "processing"])
            /\ CreatePublish(creates[i].token)
       ELSE /\ creates' = SetAt(creates, i,
                   [creates[i] EXCEPT !.user = "none", !.pc = "userCreate"])
            /\ UNCHANGED cmHandlers
    /\ UNCHANGED <<budget, scanVars, emojiVars, ntVars, cmDb, cmClock, cmList,
                   cmLatest, pubVars, subVars, sseVars, wlVars, registered,
                   rejections, retries, batchRuns>>

(* user.create answers: the row is inserted, the event published and the  *)
(* stub returned; a rejected insert is caught and rethrown                 *)
CreateUserCreate(i) ==
    /\ creates[i].pc = "userCreate"
    /\ IF Inserted(Lower(creates[i].wallet))
       THEN /\ wlUsers' = wlUsers \cup {Lower(creates[i].wallet)}
            /\ creates' = SetAt(creates, i,
                   [creates[i] EXCEPT !.pc = "done", !.status = "processing"])
            /\ CreatePublish(creates[i].token)
       ELSE /\ creates' = SetAt(creates, i,
                   [creates[i] EXCEPT !.pc = "rejected",
                                      !.status = DatabaseFailed])
            /\ UNCHANGED <<wlUsers, cmHandlers>>
    /\ UNCHANGED <<budget, scanVars, emojiVars, ntVars, cmDb, cmClock, cmList,
                   cmLatest, pubVars, subVars, sseVars, wlRows, wlKv, wlEvents,
                   wlTasks, registered, rejections, retries, batchRuns>>

-----------------------------------------------------------------------------
(* Initial states *)

ScanInit ==
    /\ isScanning = FALSE /\ scans = <<>>
    /\ tokenStore = [zora |-> <<>>, tba |-> <<>>]

EmojiInit ==
    /\ emojiHash = [k \in EmojiKeys |-> EmptyHash]
    /\ reactions = <<>>

NewTokensQuiet == ntHash = {} /\ ntList = <<>> /\ ntHandlers = <<>>

NewTokensInit ==
    /\ \E n \in {0, NewTokensTrimStop, NewTokensTrimStop + 1} :
          /\ ntList = StoredList(n)
          /\ ntHash = {e.address : e \in Range(StoredList(n))}
    /\ ntHandlers = <<>>

CommentsQuiet ==
    /\ cmDb = [k \in CommentsKeys |-> {}]
    /\ cmClock = 0
    /\ cmList = [k \in CommentsKeys |-> <<>>]
    /\ cmHandlers = <<>>
    /\ cmLatest = <<>>

(* the database holds n rows; the cached list is empty (never written, or  *)
(* lost) or holds the newest rows                                          *)
CommentsStored(n, cached) ==
    /\ cmDb = [k \in CommentsKeys |-> 1 .. n]
    /\ cmClock = n
    /\ cmList = [k \in CommentsKeys |->
                   IF cached THEN NewestFirst(1 .. n, CommentsTrimStop + 1)
                   ELSE <<>>]
    /\ cmHandlers = <<>>
    /\ cmLatest = <<>>

PubSubInit ==
    /\ pubLog = <<>>
    /\ subscribed = {}
    /\ listeners = <<>>
    /\ inflight = <<>>
    /\ clients = <<>>
    /\ sseSubscribers = {}
    /\ isRedisSubscribed = FALSE

WatchlistQuiet ==
    /\ wlUsers = {}
    /\ wlRows = [w \in WatchKeys |-> <<>>]
    /\ wlKv = [w \in WatchKeys |-> {}]
    /\ wlEvents = <<>>
    /\ wlTasks = <<>>

(* the wallet 0xab has a user whose watchlist holds the given rows *)
WatchlistStored(rows) ==
    /\ wlUsers = {"0xab"}
    /\ wlRows = [w \in WatchKeys |-> IF w = "0xab" THEN rows ELSE <<>>]
    /\ wlKv = [w \in WatchKeys |-> IF w = "0xab" THEN Range(rows) ELSE {}]
    /\ wlEvents = <<>>
    /\ wlTasks = <<>>

WatchlistInit ==
    \/ WatchlistQuiet
    \/ \E rows \in {<<>>, <<"0xcd">>, <<"0xab", "0xcd">>} : WatchlistStored(rows)

ToolsQuiet == retries = <<>> /\ batchRuns = <<>> /\ creates = <<>>

(* onModuleInit of the three handlers has run *)
HandlersRegistered == registered = EventNames /\ rejections = {}

LaterQuiet == WatchlistQuiet /\ ToolsQuiet /\ HandlersRegistered

NoBudget == [scans |-> 0, logs |-> 0, reacts |-> 0, tokenEvents |-> 0, comments |-> 0,
             commentCalls |-> 0, limit |-> 0, limitSum |-> 0, clients |-> 0,
             streams |-> {}, ops |-> 0, watch |-> 0, sequential |-> FALSE,
             retries |-> 0, batches |-> 0, rejects |-> 0, creates |-> 0]

-----------------------------------------------------------------------------
(* Specifications *)

NextScan ==
    \/ CronTickSkip
    \/ CronTickScan
    \/ TriggerManualScan
    \/ \E i \in DOMAIN scans, logs \in ScanLogs : FetchPoolEvents(i, logs)
    \/ \E i \in DOMAIN scans, ok \in BOOLEAN :
          \E k \in DOMAIN scans[i].run.cur : WorkerSettle(i, k, ok)
    \/ \E i \in DOMAIN scans : BatchNext(i)
    \/ \E i \in DOMAIN scans : BatchRejected(i)
    \/ \E i \in DOMAIN scans : TimestampsFetched(i)
    \/ \E i \in DOMAIN scans : PoolsProcessed(i)
    \/ \E i \in DOMAIN scans, got \in SUBSET Partitions : StoreGet(i, got)
    \/ \E i \in DOMAIN scans, part \in Partitions, ok \in BOOLEAN :
          StoreSet(i, part, ok)
    \/ \E i \in DOMAIN scans : ScanFail(i)

NextEmoji ==
    \/ \E t \in ReactTokens, k \in ReactKinds, i \in ReactIncrements :
          React(t, k, i)
    \/ \E r \in DOMAIN reactions : EmojiMulti(r)
    \/ \E r \in DOMAIN reactions : EmojiPublish(r)

NextNewTokens ==
    \/ \E a \in 1 .. MaxAddress : NewTokenCreated(a)
    \/ \E h \in DOMAIN ntHandlers : NewTokenExists(h)
    \/ \E h \in DOMAIN ntHandlers : NewTokenMulti(h)

NextComments ==
    \/ \E t \in CommentTokens : CommentCreated(t)
    \/ \E h \in DOMAIN cmHandlers : CommentPersist(h)
    \/ \E h \in DOMAIN cmHandlers : CommentCache(h)
    \/ \E h \in DOMAIN cmHandlers : CommentPublish(h)
    \/ \E h \in DOMAIN cmHandlers : CommentFindOlder(h)
    \/ \E h \in DOMAIN cmHandlers : CommentDeleteOlder(h)
    \/ \E t \in CommentTokens, n \in LatestLimits : GetLatest(t, n)
    \/ \E l \in DOMAIN cmLatest : LatestRange(l)
    \/ \E l \in DOMAIN cmLatest : LatestFindMany(l)
    \/ \E l \in DOMAIN cmLatest : LatestWarmPush(l)
    \/ \E l \in DOMAIN cmLatest : LatestWarmTrim(l)

(* the comment.created handlers alone *)
NextPrune ==
    \/ \E t \in CommentTokens : CommentCreated(t)
    \/ \E h \in DOMAIN cmHandlers : CommentPersist(h)
    \/ \E h \in DOMAIN cmHandlers : CommentCache(h)
    \/ \E h \in DOMAIN cmHandlers : CommentPublish(h)
    \/ \E h \in DOMAIN cmHandlers : CommentFindOlder(h)
    \/ \E h \in DOMAIN cmHandlers : CommentDeleteOlder(h)

(* two handlers over a database that is empty, one short of full, or full *)
InitPrune ==
    /\ budget = [NoBudget EXCEPT !.commentCalls = MaxPruneCalls,
                                 !.comments = MaxPruneCalls,
                                 !.ops = MaxPruneCalls]
    /\ LaterQuiet /\ ScanInit /\ EmojiInit /\ NewTokensQuiet /\ PubSubInit
    /\ \E n \in {0, PruneSkip - 1, PruneSkip}, cached \in BOOLEAN :
          CommentsStored(n, cached)

(* the comment calls of a run with small limits *)
InitComments ==
    /\ budget = [NoBudget EXCEPT !.commentCalls = MaxCommentCalls,
                                 !.comments = MaxCommentCalls,
                                 !.ops = MaxCommentCalls,
                                 !.limit = SmallLimit,
                                 !.limitSum = MaxLimitSum]
    /\ LaterQuiet /\ ScanInit /\ EmojiInit /\ NewTokensQuiet /\ PubSubInit
    /\ \E n \in {0, PruneSkip - 1, PruneSkip}, cached \in BOOLEAN :
          CommentsStored(n, cached)

(* a run over a full database whose cached list is lost, with any limit *)
InitCommentsWarm ==
    /\ budget = [NoBudget EXCEPT !.commentCalls = MaxWarmCalls,
                                 !.comments = MaxWarmCalls,
                                 !.ops = MaxWarmCalls,
                                 !.limit = MaxInitial,
                                 !.limitSum = MaxLimitSum]
    /\ LaterQuiet /\ ScanInit /\ EmojiInit /\ NewTokensQuiet /\ PubSubInit
    /\ \E n \in {PruneSkip - 1, PruneSkip} : CommentsStored(n, FALSE)

NextStream ==
    \/ Deliver
    \/ \E t \in CommentTokens, n \in StreamInitials : CommentsStream(t, n)
    \/ \E c \in DOMAIN clients : CommentsStreamSubscribe(c)
    \/ \E t \in ReactTokens : EmojiStream(t)
    \/ \E c \in DOMAIN clients : EmojiStreamCounts(c)
    \/ \E c \in DOMAIN clients : EmojiStreamSubscribe(c)
    \/ \E c \in DOMAIN clients : StreamClose(c)
    \/ \E n \in StreamInitials : StreamTokens(n)
    \/ \E c \in DOMAIN clients : GetInitialSnapshot(c)
    \/ \E c \in DOMAIN clients : SubscribeToTokenUpdates(c)
    \/ \E c \in DOMAIN clients : UnsubscribeFromTokenUpdates(c)

(* the clients of one resource and the handlers that publish to it *)
StreamBudget(kind) ==
    [NoBudget EXCEPT
       !.clients = MaxClients,
       !.streams = {kind},
       !.ops = MaxStreamOps,
       !.reacts = IF kind = "emoji" THEN MaxStreamEvents ELSE 0,
       !.tokenEvents = IF kind = "newTokens" THEN MaxStreamEvents ELSE 0,
       !.comments = IF kind = "comments" THEN MaxStreamEvents ELSE 0,
       !.commentCalls = IF kind = "comments"
                        THEN MaxClients + MaxStreamEvents ELSE 0,
       !.limit = SmallLimit,
       !.limitSum = MaxLimitSum]

InitStream ==
    /\ LaterQuiet /\ ScanInit /\ EmojiInit /\ NewTokensQuiet /\ PubSubInit
    /\ \/ budget = StreamBudget("comments")
          /\ \E n \in {0, SmallLimit}, cached \in BOOLEAN :
                CommentsStored(n, cached)
       \/ budget \in {StreamBudget("emoji"), StreamBudget("newTokens")}
          /\ CommentsQuiet

NextWatchlist ==
    \/ \E w \in WatchWallets, T \in WatchTokenLists : AddToWatchlist(w, T)
    \/ \E i \in DOMAIN wlTasks : AddUpsert(i)
    \/ \E i \in DOMAIN wlTasks : AddFindMany(i)
    \/ \E i \in DOMAIN wlTasks : AddCreateMany(i)
    \/ \E i \in DOMAIN wlTasks : AddCache(i)
    \/ \E w \in WatchWallets, T \in WatchTokenLists : RemoveFromWatchlist(w, T)
    \/ \E i \in DOMAIN wlTasks : RemoveFindUser(i)
    \/ \E i \in DOMAIN wlTasks : RemoveDeleteMany(i)
    \/ \E i \in DOMAIN wlTasks : RemoveCache(i)
    \/ \E w \in WatchWallets, t \in WatchTokens : IsTokenInWatchlist(w, t)
    \/ \E i \in DOMAIN wlTasks : CheckFindUser(i)
    \/ \E i \in DOMAIN wlTasks : CheckFindFirst(i)

InitWatchlistOf(sequential) ==
    /\ budget = [NoBudget EXCEPT !.watch = MaxWatchCalls,
                                 !.sequential = sequential]
    /\ ToolsQuiet /\ HandlersRegistered
    /\ ScanInit /\ EmojiInit /\ NewTokensQuiet /\ CommentsQuiet /\ PubSubInit
    /\ WatchlistInit

(* watchlist calls that overlap *)
InitWatchlist == InitWatchlistOf(FALSE)

(* watchlist calls made one after the other *)
InitWatchlistSeq == InitWatchlistOf(TRUE)

NextRetry ==
    \/ \E n \in RetryLimits : RetryWithBackoff(n)
    \/ \E i \in DOMAIN retries : FnResolves(i)
    \/ \E i \in DOMAIN retries, e \in RetryErrors : FnRejects(i, e)
    \/ \E i \in DOMAIN retries : DelayElapsed(i)

InitRetry ==
    /\ budget = [NoBudget EXCEPT !.retries = MaxRetryCalls]
    /\ LaterQuiet /\ ScanInit /\ EmojiInit /\ NewTokensQuiet /\ CommentsQuiet /\ PubSubInit

NextBatching ==
    \/ \E items \in BatchInputs, size \in BatchSizes : BatchingCall(items, size)
    \/ \E j \in DOMAIN batchRuns, k \in 1 .. MaxBatchSize, ok \in BOOLEAN :
          ProcessorSettle(j, k, ok)
    \/ \E j \in DOMAIN batchRuns : BatchingNext(j)
    \/ \E j \in DOMAIN batchRuns : BatchingReturns(j)
    \/ \E j \in DOMAIN batchRuns : BatchingRejects(j)

InitBatching ==
    /\ budget = [NoBudget EXCEPT !.batches = MaxBatchCalls]
    /\ LaterQuiet /\ ScanInit /\ EmojiInit /\ NewTokensQuiet /\ CommentsQuiet /\ PubSubInit

(* the three handlers with steps that may fail *)
NextHandlers ==
    \/ \E t \in ReactTokens, k \in ReactKinds : React(t, k, 1)
    \/ \E r \in DOMAIN reactions : EmojiMulti(r)
    \/ \E r \in DOMAIN reactions : EmojiPublish(r)
    \/ \E r \in DOMAIN reactions : EmojiFail(r)
    \/ \E a \in 1 .. MaxAddress : NewTokenCreated(a)
    \/ \E h \in DOMAIN ntHandlers : NewTokenExists(h)
    \/ \E h \in DOMAIN ntHandlers : NewTokenMulti(h)
    \/ \E h \in DOMAIN ntHandlers : NewTokenFail(h)
    \/ CommentCreated("0xAB")
    \/ \E h \in DOMAIN cmHandlers : CommentPersist(h)
    \/ \E h \in DOMAIN cmHandlers : CommentCache(h)
    \/ \E h \in DOMAIN cmHandlers : CommentPublish(h)
    \/ \E h \in DOMAIN cmHandlers : CommentFindOlder(h)
    \/ \E h \in DOMAIN cmHandlers : CommentDeleteOlder(h)
    \/ \E h \in DOMAIN cmHandlers : CommentFail(h)

(* the events of a run go to one of the three handlers; the comment       *)
(* handler, which has the most steps, gets one event fewer                 *)
HandlerBudget(eventName) ==
    [NoBudget EXCEPT
       !.ops = MaxHandlerOps,
       !.reacts = IF eventName = "emoji.reacted" THEN MaxHandlerOps ELSE 0,
       !.tokenEvents = IF eventName = "new-token-created"
                       THEN MaxHandlerOps ELSE 0,
       !.comments = IF eventName = "comment.created"
                    THEN MaxHandlerOps - 1 ELSE 0,
       !.commentCalls = IF eventName = "comment.created"
                        THEN MaxHandlerOps - 1 ELSE 0]

InitHandlers ==
    /\ budget \in {HandlerBudget(e) : e \in EventNames}
    /\ LaterQuiet /\ ScanInit /\ EmojiInit /\ NewTokensQuiet /\ PubSubInit
    /\ CommentsStored(PruneSkip, TRUE)

(* react calls with emojis and increments inside and outside the enums *)
NextReact ==
    \/ \E t \in ReactTokens, k \in ReactKinds, i \in ReactIncrements :
          ReactRejected(t, k, i)
    \/ NextEmoji

InitReact ==
    /\ budget = [NoBudget EXCEPT !.reacts = MaxReactCalls,
                                 !.ops = MaxReactCalls,
                                 !.rejects = MaxReactCalls]
    /\ LaterQuiet /\ ScanInit /\ EmojiInit /\ NewTokensQuiet /\ CommentsQuiet /\ PubSubInit

NextCreate ==
    \/ \E t \in {"0xAB"}, w \in CreateWallets : CreateComment(t, w)
    \/ \E i \in DOMAIN creates : CreateFindUnique(i)
    \/ \E i \in DOMAIN creates : CreateUserCreate(i)
    \/ \E h \in DOMAIN cmHandlers : CommentPersist(h)
    \/ \E h \in DOMAIN cmHandlers : CommentCache(h)
    \/ \E h \in DOMAIN cmHandlers : CommentPublish(h)

(* create calls for a wallet with or without a user *)
InitCreate ==
    /\ budget = [NoBudget EXCEPT !.creates = MaxCreateCalls]
    /\ WatchlistQuiet \/ WatchlistStored(<<>>)
    /\ ToolsQuiet /\ HandlersRegistered
    /\ ScanInit /\ EmojiInit /\ NewTokensQuiet /\ PubSubInit
    /\ \E n \in {0, PruneSkip - 1} : CommentsStored(n, TRUE)

InitScan ==
    /\ budget = [NoBudget EXCEPT !.scans = MaxScans, !.logs = MaxLogs]
    /\ LaterQuiet /\ ScanInit /\ EmojiInit /\ NewTokensQuiet /\ CommentsQuiet /\ PubSubInit

InitEmoji ==
    /\ budget = [NoBudget EXCEPT !.reacts = MaxReacts, !.ops = MaxReacts]
    /\ LaterQuiet /\ ScanInit /\ EmojiInit /\ NewTokensQuiet /\ CommentsQuiet /\ PubSubInit

InitNewTokens ==
    /\ budget = [NoBudget EXCEPT !.tokenEvents = MaxTokenEvents,
                                 !.ops = MaxTokenEvents]
    /\ LaterQuiet /\ ScanInit /\ EmojiInit /\ NewTokensInit /\ CommentsQuiet /\ PubSubInit

Init ==
    /\ budget = [scans |-> MaxScans, logs |-> MaxLogs, reacts |-> MaxReacts,
                 tokenEvents |-> MaxTokenEvents,
                 comments |-> MaxCommentCalls,
                 commentCalls |-> MaxCommentCalls, limit |-> MaxInitial,
                 limitSum |-> MaxLimitSum, clients |-> MaxClients,
                 streams |-> StreamKinds,
                 ops |-> MaxReacts + MaxTokenEvents + MaxCommentCalls
                         + MaxClients,
                 watch |-> MaxWatchCalls, sequential |-> FALSE,
                 retries |-> MaxRetryCalls, batches |-> MaxBatchCalls,
                 rejects |-> MaxReactCalls, creates |-> MaxCreateCalls]
    /\ LaterQuiet /\ ScanInit /\ EmojiInit /\ NewTokensInit /\ PubSubInit
    /\ \E n \in {0, PruneSkip - 1, PruneSkip}, cached \in BOOLEAN :
          CommentsStored(n, cached)

Next ==
    \/ NextScan \/ NextEmoji \/ NextNewTokens \/ NextComments \/ NextStream
    \/ NextWatchlist \/ NextRetry \/ NextBatching \/ NextHandlers \/ NextReact
    \/ NextCreate

Spec == Init /\ [][Next]_vars
SpecScan == InitScan /\ [][NextScan]_vars
SpecEmoji == InitEmoji /\ [][NextEmoji]_vars
SpecNewTokens == InitNewTokens /\ [][NextNewTokens]_vars
SpecComments == InitComments /\ [][NextComments]_vars
SpecCommentsWarm == InitCommentsWarm /\ [][NextComments]_vars
SpecPrune == InitPrune /\ [][NextPrune]_vars
NextStreamed ==
    \/ \E t \in ReactTokens, k \in ReactKinds, i \in ReactIncrements :
          React(t, k, i)
    \/ \E r \in DOMAIN reactions : EmojiMulti(r)
    \/ \E r \in DOMAIN reactions : EmojiPublish(r)
    \/ \E a \in 1 .. MaxAddress : NewTokenCreated(a)
    \/ \E h \in DOMAIN ntHandlers : NewTokenExists(h)
    \/ \E h \in DOMAIN ntHandlers : NewTokenMulti(h)
    \/ \E t \in CommentTokens : CommentCreated(t)
    \/ \E h \in DOMAIN cmHandlers : CommentPersist(h)
    \/ \E h \in DOMAIN cmHandlers : CommentCache(h)
    \/ \E h \in DOMAIN cmHandlers : CommentPublish(h)
    \/ \E h \in DOMAIN cmHandlers : CommentFindOlder(h)
    \/ \E l \in DOMAIN cmLatest : LatestRange(l)
    \/ \E l \in DOMAIN cmLatest : LatestFindMany(l)
    \/ \E l \in DOMAIN cmLatest : LatestWarmPush(l)
    \/ \E l \in DOMAIN cmLatest : LatestWarmTrim(l)

SpecHandlers == InitHandlers /\ [][NextHandlers]_vars
SpecReact == InitReact /\ [][NextReact]_vars
SpecCreate == InitCreate /\ [][NextCreate]_vars
SpecRetry == InitRetry /\ [][NextRetry]_vars
SpecBatching == InitBatching /\ [][NextBatching]_vars
SpecWatchlist == InitWatchlist /\ [][NextWatchlist]_vars
SpecWatchlistSeq == InitWatchlistSeq /\ [][NextWatchlist]_vars
SpecStream == InitStream /\ [][NextStreamed \/ NextStream]_vars

-----------------------------------------------------------------------------
(* Properties *)

RECURSIVE SumIncrements(_, _, _)
(* the sum of the increments of the accepted react calls on one field *)
SumIncrements(key, kind, n) ==
    IF n = 0 THEN 0
    ELSE SumIncrements(key, kind, n - 1)
         + (IF EmojiKey(reactions[n].token) = key /\ reactions[n].emoji = kind
            THEN reactions[n].increment ELSE 0)

HandlersDone(key, kind) ==
    \A r \in DOMAIN reactions :
        (EmojiKey(reactions[r].token) = key /\ reactions[r].emoji = kind)
            => reactions[r].pc = "done"

(* C1: at most one invocation of scanTokens is in progress at any time: a  *)
(* cron tick or a manual trigger that arrives during a scan starts none.   *)
C1_AtMostOneScanInProgress == Cardinality(InProgress) <= 1

C3_TwoLikesPublishInOrder ==
    \A a, b \in DOMAIN reactions :
        ( /\ a < b
          /\ Len(reactions) = 2
          /\ \A r \in {a, b} : /\ reactions[r].emoji = "like"
                               /\ reactions[r].increment = 1
                               /\ reactions[r].pc = "done"
          /\ EmojiKey(reactions[a].token) = EmojiKey(reactions[b].token) )
        => LET msgs == PublishedOn(EmojiChannel(reactions[a].token))
               previous == Min(reactions[a].previousCount,
                               reactions[b].previousCount)
           IN /\ GetCounts(reactions[a].token)["like"] = previous + 2
              /\ Len(msgs) = 2
              /\ msgs[1].message.newCount < msgs[2].message.newCount

(* C4: in every reachable state, the intermediate states of the            *)
(* comment.created handler and of the getLatest cache warm included, the   *)
(* list comments:<lc(t)>:list holds at most 50 entries.                    *)
C4_ListAtMost50 ==
    \A t \in CommentTokens :
        Len(cmList[CommentsListKey(t)]) <= CommentsTrimStop + 1

Deltas(c) == SelectSeq(clients[c].events, LAMBDA e : e.type = "delta")

(* C5: while a client of a channel stays connected the subscriber          *)
(* connection stays subscribed to the channel, other clients of the        *)
(* channel disconnecting or not, and every message published on the        *)
(* channel since the client subscribed is on its way to the process or     *)
(* has been written to the client.                                         *)
C5_SharedSubscriptionKept ==
    \A c \in DOMAIN clients :
        Connected(c) =>
           /\ clients[c].channel \in subscribed
           /\ \A i \in DOMAIN pubLog :
                 (i > clients[c].since /\ pubLog[i].channel = clients[c].channel)
                    => \/ \E e \in Range(Deltas(c)) : e.seq = i
                       \/ \E m \in Range(inflight) : m.seq = i

(* C6: on every SSE connection the connection event is followed by the     *)
(* initial snapshot, every event after the snapshot is a delta, and the    *)
(* deltas are written in the order in which their messages were published  *)
(* on the channel.                                                         *)
C6_SnapshotThenDeltasInOrder ==
    \A c \in DOMAIN clients :
        LET ev == clients[c].events
        IN /\ ev[1].type = "connection"
           /\ Len(ev) >= 2 => ev[2].type = "snapshot"
           /\ \A i \in 3 .. Len(ev) : ev[i].type = "delta"
           /\ \A i, j \in 3 .. Len(ev) : (i < j) => ev[i].seq <= ev[j].seq

(* a connected client got its snapshot and then the deltas of two          *)
(* messages published on its channel                                       *)
C6_Witness ==
    \E c \in DOMAIN clients :
        /\ Connected(c)
        /\ Len(clients[c].events) = 4
        /\ clients[c].events[2].type = "snapshot"
        /\ clients[c].events[3].seq < clients[c].events[4].seq

(* C7: a message published on a channel is written at most once to each    *)
(* SSE client, whatever clients connected and disconnected before.         *)
C7_WrittenAtMostOnce ==
    \A c \in DOMAIN clients :
        \A i, j \in DOMAIN Deltas(c) :
            (i # j) => Deltas(c)[i].seq # Deltas(c)[j].seq

(* C8: the message handler of a closed client is not invoked for a message *)
(* published after the close, and once no client of its channel is         *)
(* connected the subscriber connection is not subscribed to the channel.   *)
C8_ClosedClientDeregistered ==
    \A c \in DOMAIN clients :
        clients[c].closed =>
           /\ \A k \in DOMAIN clients[c].late :
                 clients[c].late[k] <= clients[c].closedAt
           /\ (\A d \in DOMAIN clients :
                  Connected(d) => clients[d].channel # clients[c].channel)
                 => clients[c].channel \notin subscribed

(* C9: an address is inserted into new-tokens:list and published on        *)
(* new-tokens:updates at most once while new-tokens:events holds it,       *)
(* also when two events with the same address are handled concurrently.    *)
C9_AddressInsertedOnce ==
    /\ \A i, j \in DOMAIN ntList :
          (i # j) => ntList[i].address # ntList[j].address
    /\ LET msgs == PublishedOn(NewTokensChannel)
       IN \A i, j \in DOMAIN msgs :
             (i # j) => msgs[i].message.address # msgs[j].message.address

(* C10: new-tokens:list never holds more than 200 entries.                 *)
C10_ListAtMost200 == Len(ntList) <= NewTokensTrimStop + 1

(* a full list took one more token: the head is the new token and the      *)
(* oldest stored entry is gone                                             *)
C10_Witness ==
    /\ Len(ntList) = NewTokensTrimStop + 1
    /\ ntList[1].address > 0
    /\ ntList[Len(ntList)].address = 0 - NewTokensTrimStop

SameCall(i, j) ==
    /\ wlTasks[i].op = wlTasks[j].op
    /\ wlTasks[i].wallet = wlTasks[j].wallet
    /\ LowerAll(wlTasks[i].tokens) = LowerAll(wlTasks[j].tokens)

(* the call j was made when the call before it had returned, and has      *)
(* returned itself                                                         *)
Followed(j) ==
    /\ budget.sequential
    /\ j \in DOMAIN wlTasks /\ j > 1
    /\ wlTasks[j].pc = "done"
    /\ SameCall(j - 1, j)

(* C11: an add that follows an add with the same wallet and token list     *)
(* returns addedCount 0 and leaves the wallet's rows as the first add left *)
(* them.                                                                   *)
C11_SecondAddAddsNothing ==
    \A j \in DOMAIN wlTasks :
        (Followed(j) /\ wlTasks[j].op = "add") =>
           /\ wlTasks[j].status = "ok" /\ wlTasks[j].count = 0
           /\ wlTasks[j].before.rows = wlTasks[j - 1].after.rows
           /\ wlTasks[j].after.rows = wlTasks[j].before.rows

(* the first add added rows, the second has returned *)
C11_Witness ==
    \E j \in DOMAIN wlTasks :
        /\ Followed(j) /\ wlTasks[j].op = "add"
        /\ wlTasks[j - 1].count > 0
        /\ wlTasks[j - 1].after.rows # wlTasks[j - 1].before.rows

(* C12: the addedCount an add returns is the number of rows the call       *)
(* added to its wallet's watchlist.                                        *)
C12_AddedCountIsRowsAdded ==
    \A i \in DOMAIN wlTasks :
        (wlTasks[i].op = "add" /\ wlTasks[i].pc = "done")
           => wlTasks[i].count = wlTasks[i].inserted

(* C13 as stated: a remove that follows a remove with the same wallet and  *)
(* token list returns removedCount 0.                                      *)
C13_SecondRemoveReturnsZero ==
    \A j \in DOMAIN wlTasks :
        (Followed(j) /\ wlTasks[j].op = "remove") =>
           wlTasks[j].status = "ok" /\ wlTasks[j].count = 0

(* C13 amended: it returns removedCount 0 when the wallet has a user, and  *)
(* fails with NotFound, as the first remove did, when it has none.         *)
C13_SecondRemoveZeroOrNotFound ==
    \A j \in DOMAIN wlTasks :
        (Followed(j) /\ wlTasks[j].op = "remove") =>
           IF wlTasks[j].before.user
           THEN wlTasks[j].status = "ok" /\ wlTasks[j].count = 0
           ELSE /\ wlTasks[j].status = "NotFound"
                /\ wlTasks[j - 1].status = "NotFound"

(* the first remove removed two rows, the second has returned *)
C13_Witness ==
    \E j \in DOMAIN wlTasks :
        /\ Followed(j) /\ wlTasks[j].op = "remove"
        /\ wlTasks[j - 1].count = 2

(* C14: the answer of a check is true exactly when the lower-cased token   *)
(* is among the entries of the pages of the wallet's list, with any page   *)
(* size; it is false for a wallet without a user.                          *)
C14_ContainsIffListed ==
    \A i \in DOMAIN wlTasks :
        (budget.sequential /\ i = Len(wlTasks) /\ wlTasks[i].op = "check"
           /\ wlTasks[i].pc = "done") =>
           /\ \A l \in ListLimits :
                 wlTasks[i].found
                   <=> Lower(wlTasks[i].tokens[1])
                          \in ListedTokens(wlTasks[i].wallet, l)
           /\ ~wlTasks[i].before.user => ~wlTasks[i].found

(* a check of a token given in upper case found the row an add wrote *)
C14_Witness ==
    \E i \in DOMAIN wlTasks :
        /\ budget.sequential /\ i = Len(wlTasks) /\ i > 1
        /\ wlTasks[i].op = "check" /\ wlTasks[i].pc = "done"
        /\ wlTasks[i].found
        /\ wlTasks[i].tokens[1] # Lower(wlTasks[i].tokens[1])
        /\ wlTasks[i - 1].op = "add" /\ wlTasks[i - 1].count > 0

(* C15: a remove for a wallet without a user fails with NotFound and       *)
(* leaves the rows, the KV set and the published events as they were.      *)
C15_RemoveWithoutUserChangesNothing ==
    \A i \in DOMAIN wlTasks :
        (budget.sequential /\ wlTasks[i].op = "remove"
           /\ wlTasks[i].pc = "done" /\ ~wlTasks[i].before.user) =>
           /\ wlTasks[i].status = "NotFound"
           /\ wlTasks[i].after = wlTasks[i].before

(* such a remove has returned, for a wallet whose user is absent while     *)
(* another wallet has a watchlist                                          *)
C15_Witness ==
    \E i \in DOMAIN wlTasks :
        /\ budget.sequential /\ wlTasks[i].op = "remove"
        /\ wlTasks[i].pc = "done" /\ ~wlTasks[i].before.user
        /\ wlTasks[i].status = "NotFound"
        /\ \E w \in WatchKeys : wlRows[w] # <<>>

(* the hooks of the configured hook map *)
HookMap == {Hooks.zoraCreatorCoin, Hooks.zoraV4Coin}

(* C16: every record a scan hands to the repository, and every record the  *)
(* repository holds, has the pool of a fetched log whose hook is a key of  *)
(* the hook map; a log with another hook has no record.                    *)
C16_RecordsComeFromMappedHooks ==
    /\ \A i \in DOMAIN scans : \A r \in Records(scans[i].tokens) :
          /\ r.id.hooks \in HookMap
          /\ \E l \in DOMAIN scans[i].logs : scans[i].logs[l].args = r.id
    /\ \A r \in Range(tokenStore.zora) \cup Range(tokenStore.tba) :
          r.id.hooks \in HookMap

(* a scan that fetched a log with an unmapped hook has stored its records *)
C16_Witness ==
    \E i \in DOMAIN scans :
        /\ scans[i].pc = "done" /\ scans[i].tokens # <<>>
        /\ \E l \in DOMAIN scans[i].logs :
              scans[i].logs[l].args.hooks \notin HookMap
        /\ Records(scans[i].tokens)
              \subseteq Range(tokenStore.zora) \cup Range(tokenStore.tba)

(* the records the processPool invocations of scan i have produced *)
Processed(i) ==
    IF scans[i].run.worker = "processPool"
    THEN Records(scans[i].run.results) \cup Records(BatchResults(scans[i].run))
    ELSE {}

(* C17: a record of a pool with a base pairing among its currencies has    *)
(* appType TBA, and its token is the currency that is no base pairing,     *)
(* currency1 when both are, with the price of that currency; a record of   *)
(* a pool without one has appType ZORA and token currency0.                *)
C17_AppTypeAndTokenSide ==
    \A i \in DOMAIN scans : \A r \in Processed(i) :
        LET base0 == r.id.currency0 \in TbaPairings
            base1 == r.id.currency1 \in TbaPairings
        IN /\ r.price.base = r.address
           /\ r.price.quote \in {r.id.currency0, r.id.currency1} \ {r.address}
           /\ IF base0 \/ base1
              THEN /\ r.appType = "TBA"
                   /\ r.address = IF base0 THEN r.id.currency1
                                  ELSE r.id.currency0
              ELSE /\ r.appType = "ZORA"
                   /\ r.address = r.id.currency0

(* one scan has processed a pool of two base pairings, a pool whose        *)
(* currency1 alone is one, a pool whose currency0 alone is one and a pool  *)
(* without one                                                             *)
C17_Witness ==
    \E i \in DOMAIN scans :
        \E both, second, first, neither \in Processed(i) :
            /\ both.id.currency0 \in TbaPairings
            /\ both.id.currency1 \in TbaPairings
            /\ second.id.currency0 \notin TbaPairings
            /\ second.id.currency1 \in TbaPairings
            /\ first.id.currency0 \in TbaPairings
            /\ first.id.currency1 \notin TbaPairings
            /\ neither.id.currency0 \notin TbaPairings
            /\ neither.id.currency1 \notin TbaPairings

Addresses(list) == {list[k].address : k \in DOMAIN list}

(* C18: when no scan is running, no token address is in both partitions    *)
(* and no address occurs twice in a partition.                             *)
C18_OnePartitionPerToken ==
    InProgress = {} =>
        /\ Addresses(tokenStore.zora) \cap Addresses(tokenStore.tba) = {}
        /\ Cardinality(Addresses(tokenStore.zora)) = Len(tokenStore.zora)
        /\ Cardinality(Addresses(tokenStore.tba)) = Len(tokenStore.tba)

(* the processPool invocations of the scans in S that are in flight *)
RECURSIVE InFlight(_)
InFlight(S) ==
    IF S = {} THEN 0
    ELSE LET i == CHOOSE j \in S : TRUE
         IN (IF scans[i].run.worker = "processPool"
             THEN Cardinality(Pending(scans[i].run)) ELSE 0)
            + InFlight(S \ {i})

(* C19: at most 3 processPool invocations are in flight at any moment. *)
C19_AtMostThreeInFlight == InFlight(DOMAIN scans) <= BatchSize

(* C20: when an invocation of a batch has failed and the others have       *)
(* settled, the caller has the result of every other element.              *)
C20_FailureKeepsSiblings ==
    \A i \in DOMAIN scans :
        \A k \in DOMAIN scans[i].run.cur :
            (scans[i].run.cur[k].st = "rejected" /\ Pending(scans[i].run) = {}
               /\ ~Running(i)) =>
               \A j \in DOMAIN scans[i].run.items :
                   j # scans[i].run.i + k
                      => scans[i].run.items[j] \in scans[i].cache

(* C21: a failure that the rate-limit predicate does not match is the last *)
(* failure of its call and is what the call throws, with no invocation and *)
(* no delay after it; when it is the first failure, fn was invoked once    *)
(* and no delay was taken.                                                 *)
C21_OtherFailurePropagatesAtOnce ==
    \A i \in DOMAIN retries : \A k \in DOMAIN retries[i].failures :
        ~IsRateLimit(retries[i].failures[k]) =>
           /\ k = Len(retries[i].failures)
           /\ retries[i].pc = "thrown"
           /\ retries[i].error = retries[i].failures[k]
           /\ retries[i].calls = k
           /\ Len(retries[i].delays) = k - 1

(* a call with retries left has thrown its first failure, which the       *)
(* predicate does not match                                                *)
C21_Witness ==
    \E i \in DOMAIN retries :
        /\ retries[i].pc = "thrown" /\ Len(retries[i].failures) = 1
        /\ retries[i].maxRetries = DefaultMaxRetries
        /\ ~IsRateLimit(retries[i].error)
        /\ retries[i].error.message = <<"Rate Limit">>

(* C22: a call whose attempts all failed with a rate limit has invoked fn  *)
(* maxRetries times, with delays of 1000 ms, 2000 ms, ... between them,    *)
(* and throws the failure 'Max retries exceeded', which is none of the     *)
(* failures of fn.                                                         *)
C22_ExhaustionIsDistinctFailure ==
    \A i \in DOMAIN retries :
        (/\ retries[i].pc = "thrown"
         /\ \A k \in DOMAIN retries[i].failures :
               IsRateLimit(retries[i].failures[k])) =>
           /\ retries[i].calls = retries[i].maxRetries
           /\ retries[i].delays =
                 [k \in 1 .. retries[i].maxRetries - 1 |->
                     BackoffDelay(DefaultBaseDelay, k - 1)]
           /\ retries[i].error = MaxRetriesExceeded

(* C23: a call of the batching utility that returned, no processor having  *)
(* failed, returns one result per input element, the result of element k   *)
(* at position k, whatever the batch size and the input length.            *)
C23_OneResultPerInputInOrder ==
    \A j \in DOMAIN batchRuns :
        batchRuns[j].pc = "returned" =>
            batchRuns[j].run.results =
                [k \in DOMAIN batchRuns[j].run.items |->
                    {Processed1(batchRuns[j].run.items[k])}]

(* a call returned whose input took more than one batch and whose length   *)
(* is no multiple of the batch size                                        *)
C23_Witness ==
    \E j \in DOMAIN batchRuns :
        /\ batchRuns[j].pc = "returned"
        /\ Len(batchRuns[j].run.items) > batchRuns[j].run.size
        /\ Len(batchRuns[j].run.items) % batchRuns[j].run.size # 0
        /\ Len(batchRuns[j].run.results) = Len(batchRuns[j].run.items)

(* C24: create() and react() have returned their processing stub whatever  *)
(* became of the handler of the event they published, a failed handler     *)
(* included, and the three handlers stay registered: an event published    *)
(* after a failure is handled.                                             *)
C24_HandlerFailureStaysInHandler ==
    /\ registered = EventNames
    /\ \A r \in DOMAIN reactions :
          reactions[r].response = "processing" /\ reactions[r].pc # "unhandled"
    /\ \A h \in DOMAIN cmHandlers :
          cmHandlers[h].response = "processing" /\ cmHandlers[h].pc # "unhandled"
    /\ \A h \in DOMAIN ntHandlers : ntHandlers[h].pc # "unhandled"

(* a handler failed and the handler of a later event of the same kind ran  *)
(* to its end                                                              *)
C24_Witness ==
    \/ \E r, q \in DOMAIN reactions :
          r < q /\ reactions[r].pc = "failed" /\ reactions[q].pc = "done"
    \/ \E h, g \in DOMAIN cmHandlers :
          h < g /\ cmHandlers[h].pc = "failed" /\ cmHandlers[g].pc = "done"

(* C25: a react call whose emoji is outside like, love, laugh, wow, sad or *)
(* whose increment is outside 1, 2, 3 is rejected: every such call was     *)
(* answered with BadRequest, no emoji.reacted event carries such a value,  *)
(* and the counters hold what the handlers of the accepted calls wrote.    *)
C25_InvalidReactionRejected ==
    LET valid(x) == /\ x.emoji \in {"like", "love", "laugh", "wow", "sad"}
                    /\ x.increment \in {1, 2, 3}
        counted(key, kind) ==
            {r \in DOMAIN reactions :
                /\ EmojiKey(reactions[r].token) = key
                /\ reactions[r].emoji = kind
                /\ reactions[r].pc \in {"publish", "done"}}
    IN /\ \A r \in DOMAIN reactions : valid(reactions[r])
       /\ \A x \in rejections : ~valid(x) /\ x.response = "BadRequest"
       /\ \A key \in DOMAIN emojiHash, kind \in ReactKinds :
             counted(key, kind) = {} => HGetCount(emojiHash[key], kind) = 0

(* a call with a bad emoji or increment was rejected after an accepted     *)
(* call's handler had counted                                              *)
C25_Witness ==
    /\ \E x \in rejections : x.emoji = "meh" \/ x.increment \in {0, 4}
    /\ \E r \in DOMAIN reactions : reactions[r].pc = "done"

(* C26: a scan one of whose pools failed, and so produced null, does not   *)
(* fail for it: once the scan is over it is done and the records of its    *)
(* other pools are in the repository.                                      *)
C26_FailedPoolIsDropped ==
    \A i \in DOMAIN scans :
        (/\ ~Running(i)
         /\ \E k \in DOMAIN scans[i].tokens : scans[i].tokens[k] = Null
         /\ \E k \in DOMAIN scans[i].tokens : scans[i].tokens[k] # Null) =>
           /\ scans[i].pc = "done"
           /\ \A r \in Records(scans[i].tokens) :
                 r.address \in Addresses(tokenStore.zora)
                                  \cup Addresses(tokenStore.tba)

(* C28: a storeTokens call has written both partitions or none: no state   *)
(* shows one partition as the call wrote it and the other not yet, or      *)
(* never, written.                                                         *)
C28_PartitionWritesAtomic ==
    \A i \in DOMAIN scans : scans[i].written \in {{}, Partitions}

(* C29: a store of tokens leaves a partition it writes equal to the        *)
(* partition's previous content merged by address with the tokens stored:  *)
(* the previous addresses all stay.                                        *)
C29_StoreMergesIntoPrevious ==
    [][\A part \in Partitions :
          tokenStore'[part] # tokenStore[part] =>
             /\ Addresses(tokenStore[part]) \subseteq Addresses(tokenStore'[part])
             /\ \E i \in DOMAIN scans :
                   tokenStore'[part] =
                      MergeTokens(tokenStore[part],
                                  TokensOf(scans[i].tokens, AppTypeOf(part)))]_vars

(* C30: after a scan has failed the flag is set only while a scan that     *)
(* started later is running: the failed scan has released it and a cron    *)
(* tick finds it clear.                                                    *)
C30_FailedScanReleasesFlag ==
    \A i \in DOMAIN scans :
        (scans[i].pc = "failed" /\ isScanning)
            => \E j \in InProgress : j > i

(* a scan failed and the next cron tick started a scan *)
C30_Witness ==
    \E i, j \in DOMAIN scans :
        /\ j = i + 1
        /\ scans[i].pc = "failed"
        /\ scans[j].via = "cron"

(* C27: when every add and remove call has completed, every member of the *)
(* KV set watchlist:<w> is a token the database holds for w.               *)
C27_NoPhantomCacheEntry ==
    (\A i \in DOMAIN wlTasks : wlTasks[i].pc = "done") =>
        \A w \in WatchKeys : wlKv[w] \subseteq Range(wlRows[w])

(* C31: in every reachable state the entries of each list                  *)
(* comments:<lc(t)>:list are in strictly descending createdAt order, the   *)
(* newest at the head.                                                     *)
C31_ListNewestFirst ==
    \A key \in CommentsKeys :
        \A i, j \in DOMAIN cmList[key] :
            i < j => cmList[key][i] > cmList[key][j]

(* C32: every newComment message published on comments:<lc(t)> carries a  *)
(* comment the database has stored, and the handler that published it has  *)
(* its list update, succeeded or failed, behind it; a handler that has not *)
(* reached its publish has published nothing.                              *)
C32_PersistCachePublish ==
    LET published(h) ==
            {k \in DOMAIN pubLog :
                /\ pubLog[k].channel = CommentsChannel(cmHandlers[h].token)
                /\ pubLog[k].message.comment = cmHandlers[h].comment}
    IN /\ \A k \in DOMAIN pubLog :
             pubLog[k].channel \in {CommentsChannel(t) : t \in CommentTokens} =>
                /\ pubLog[k].message.comment \in 1 .. cmClock
                /\ \E h \in DOMAIN cmHandlers :
                      /\ k \in published(h)
                      /\ cmHandlers[h].pc \in {"findOlder", "deleteMany", "done"}
       /\ \A h \in DOMAIN cmHandlers :
             cmHandlers[h].pc \in {"create", "cache", "publish", "failed"}
                => published(h) = {}

(* a handler whose list update failed has published its comment *)
C32_Witness ==
    \E h \in DOMAIN cmHandlers, k \in DOMAIN pubLog :
        /\ cmHandlers[h].pc = "done" /\ cmHandlers[h].logged = 1
        /\ pubLog[k].channel = CommentsChannel(cmHandlers[h].token)
        /\ pubLog[k].message.comment = cmHandlers[h].comment
        /\ cmHandlers[h].comment \in cmDb[CommentsListKey(cmHandlers[h].token)]
        /\ cmHandlers[h].comment
              \notin Range(cmList[CommentsListKey(cmHandlers[h].token)])

C34_ConcurrentCreatesSucceed ==
    \A i, j \in DOMAIN creates :
        (/\ i # j
         /\ Lower(creates[i].wallet) = Lower(creates[j].wallet)
         /\ creates[i].user = "none" /\ creates[j].user = "none"
         /\ creates[i].pc \in {"done", "rejected"}
         /\ creates[j].pc \in {"done", "rejected"}) =>
           /\ creates[i].status = "processing"
           /\ creates[j].status = "processing"
           /\ Len(cmHandlers) >= 2
           /\ Lower(creates[i].wallet) \in wlUsers

(* C35: a getLatest call that ends while no handler has run and every     *)
(* other call has ended returns the min(limit, n) newest of the n comments *)
(* the database retains, newest first, whether the list or the database    *)
(* answered it.                                                            *)
C35_LatestReturnsNewest ==
    [][\A l \in DOMAIN cmLatest :
          (/\ cmHandlers = <<>>
           /\ \A m \in DOMAIN cmLatest \ {l} : cmLatest[m].pc = "done"
           /\ cmLatest[l].pc # "done"
           /\ cmLatest'[l].pc = "done") =>
             cmLatest'[l].result =
                 NewestFirst(cmDb[CommentsListKey(cmLatest[l].token)],
                             cmLatest[l].limit)]_vars

(* C36: no comment occurs twice in a list comments:<lc(t)>:list, with     *)
(* getLatest calls warming the list and handlers pushing to it in any      *)
(* order.                                                                  *)
C36_ListWithoutDuplicates ==
    \A key \in CommentsKeys :
        Cardinality(Range(cmList[key])) = Len(cmList[key])

(* what a message of a comments or launchpad channel is about is in the  *)
(* snapshot the client was sent                                            *)
Reflected(c, i) ==
    IF clients[c].kind = "comments"
    THEN pubLog[i].message.comment \in Range(clients[c].snapshot)
    ELSE pubLog[i].message \in Range(clients[c].snapshot)

(* C37: for a connected comments or launchpad client, every message        *)
(* published on its channel after its snapshot was read and before it      *)
(* subscribed is about a comment or token the snapshot holds, or has been   *)
(* written to the client as a delta, or is on its way to the process.       *)
C37_NothingLostAroundSnapshot ==
    \A c \in DOMAIN clients :
        (Connected(c) /\ clients[c].kind \in {"comments", "newTokens"}) =>
           \A i \in DOMAIN pubLog :
              (/\ i > clients[c].readAt
               /\ i <= clients[c].since
               /\ pubLog[i].channel = clients[c].channel) =>
                 \/ Reflected(c, i)
                 \/ \E e \in Range(Deltas(c)) : e.seq = i
                 \/ \E m \in Range(inflight) : m.seq = i

(* C38: when two storeTokens calls have completed, overlapping or not, and *)
(* every call that wrote a partition had both its GETs answered, each      *)
(* partition holds every address either call wrote to it.                  *)
C38_OverlappingStoresKeepBoth ==
    \A i, j \in DOMAIN scans :
        (/\ i # j
         /\ scans[i].pc = "done" /\ scans[j].pc = "done"
         /\ \A k \in DOMAIN scans :
               scans[k].written # {} => scans[k].read = Partitions) =>
           \A part \in Partitions :
              Addresses(TokensOf(scans[i].tokens, AppTypeOf(part)))
                 \cup Addresses(TokensOf(scans[j].tokens, AppTypeOf(part)))
                 \subseteq Addresses(tokenStore[part])

(* C39: the flag isScanning is set exactly when an invocation of           *)
(* scanTokens is in progress: an invocation that ends does not clear it    *)
(* while another one is running.                                           *)
C39_FlagIffScanInProgress == isScanning <=> InProgress # {}

=============================================================================
